---------------------------- MODULE Spec2Model ----------------------------
(***************************************************************************)
(* A model of the OCAP query engine: the metadata reducer (state.py), the  *)
(* five-node workflow graph (graph.py) run by OCAPService.process_query,   *)
(* the routing / retrieval node and the response-strategy classifier       *)
(* (nodes/classify.py) and the nodes around them.                          *)
(*                                                                         *)
(* Representation.                                                         *)
(*   - A Python str that the code trims, case-folds or compares is a       *)
(*     sequence of one-character strings: "e1" is <<"e","1">>, "" is <<>>. *)
(*   - A Python dict is a TLA+ function whose domain is its key set.       *)
(*   - Python None is NoneStr where a str is expected, NoneDict where a    *)
(*     dict is expected and NONE where an enumeration label is expected.   *)
(*   - A Python list is a sequence.                                        *)
(***************************************************************************)
EXTENDS Integers, Sequences, FiniteSets, TLC

VARIABLES
    pc,          \* position of OCAPService.process_query
    state,       \* the OCAPState channels of the running graph
    active,      \* nodes scheduled in the current superstep
    started,     \* nodes of the current superstep that have begun executing
    input,       \* node -> the state the node read when it began
    writes,      \* node -> the partial state the node returned (pending)
    runs,        \* node -> number of executions in this turn
    env,         \* what the external collaborators did during this turn
    searches,    \* the search requests the routing node issued, in order
    result,      \* the dictionary process_query returned
    mleft,       \* merge_metadata: left argument
    mright,      \* merge_metadata: right argument
    mout,        \* merge_metadata: value returned
    qin,         \* _analyze_result_quality: arguments
    qout,        \* _analyze_result_quality: value returned
    twin,        \* one turn run twice, on an empty and on a failing memory store
    thread,      \* a thread's list of turn identifiers and the turns using it
    call,        \* one call of a function: its arguments and the value returned
    bg           \* the background task queue, its workers and the database

vars == <<pc, state, active, started, input, writes, runs, env, searches,
          result, mleft, mright, mout, qin, qout, twin, thread, call, bg>>

wfVars == <<pc, state, active, started, input, writes, runs, env, searches, result>>
mergeVars == <<mleft, mright, mout>>
qualVars == <<qin, qout>>
twinVars == <<twin>>
threadVars == <<thread>>
callVars == <<call>>
bgVars == <<bg>>

(***************************************************************************)
(* Bounds of the model.                                                    *)
(***************************************************************************)
MaxIndexRows == 2   \* rows held by the fact index in one configuration
MaxMergeKeys == 2   \* top-level keys of a merge_metadata argument
MaxQualRows == 3    \* rows handed to _analyze_result_quality
MaxTurns == 2       \* turns running concurrently on one thread
MaxRawMatches == 3  \* entries of a match list answered by the extraction oracle
MaxStoredTurns == 2 \* turn identifiers in a thread's list

(***************************************************************************)
(* Python values.                                                          *)
(***************************************************************************)
NONE == "<None>"
NoneStr == <<"<None>">>
NoneList == <<NONE>>
NoneDict == [py_none |-> TRUE]

Get(d, k, default) == IF k \in DOMAIN d THEN d[k] ELSE default

\* dict(d) followed by d[k] = v
DictSet(d, k, v) == [x \in DOMAIN d \cup {k} |-> IF x = k THEN v ELSE d[x]]

Range(s) == {s[i] : i \in 1..Len(s)}

Take(s, n) == IF Len(s) <= n THEN s ELSE SubSeq(s, 1, n)

(***************************************************************************)
(* str.strip() and str.lower() on character sequences.                     *)
(***************************************************************************)
IsSpace(c) == c \in {" ", "\t", "\n"}

LowerChar(c) ==
    CASE c = "N" -> "n"
      [] c = "A" -> "a"
      [] c = "O" -> "o"
      [] c = "E" -> "e"
      [] c = "U" -> "u"
      [] c = "L" -> "l"
      [] c = "D" -> "d"
      [] c = "S" -> "s"
      [] c = "F" -> "f"
      [] c = "X" -> "x"
      [] OTHER -> c

Lower(s) == [i \in 1..Len(s) |-> LowerChar(s[i])]

RECURSIVE LStrip(_)
LStrip(s) == IF s # <<>> /\ IsSpace(Head(s)) THEN LStrip(Tail(s)) ELSE s

RECURSIVE RStrip(_)
RStrip(s) ==
    IF s # <<>> /\ IsSpace(s[Len(s)]) THEN RStrip(SubSeq(s, 1, Len(s) - 1)) ELSE s

Strip(s) == RStrip(LStrip(s))

NullTokens == { <<"n","a","n">>, <<"n","o","n","e">>, <<"n","u","l","l">> }

\* A mutant of normalize_value: the trimming is left out.
normalize_value_nostrip(val) ==
    IF val = NoneStr THEN <<>>
    ELSE IF Lower(val) \in NullTokens THEN <<>> ELSE val

normalize_value(val) ==
    IF val = NoneStr THEN <<>>
    ELSE LET v == Strip(val)
         IN  IF Lower(v) \in NullTokens THEN <<>> ELSE v

(***************************************************************************)
(* The search service.  An index is a sequence of documents; a filter      *)
(* request returns, in index order, the documents that satisfy every       *)
(* term / terms filter on keyword fields, at most `size` of them.          *)
(***************************************************************************)
KB == "ocap-knowledge-base"
REL == "ocap-relationship-index"

Term(field, value) == [field |-> field, values |-> {value}]
Terms(field, valueSeq) == [field |-> field, values |-> Range(valueSeq)]

FilterMatches(doc, f) == f.field \in DOMAIN doc /\ doc[f.field] \in f.values

SearchFilter(docs, filters, size) ==
    Take(SelectSeq(docs, LAMBDA doc :
             \A i \in 1..Len(filters) : FilterMatches(doc, filters[i])), size)

\* The standard analyzer of a text field: lower-cased whitespace-separated tokens.
RECURSIVE TokensOf(_, _, _)
TokensOf(s, cur, acc) ==
    IF s = <<>> THEN (IF cur = <<>> THEN acc ELSE acc \cup {cur})
    ELSE IF IsSpace(Head(s))
         THEN TokensOf(Tail(s), <<>>, IF cur = <<>> THEN acc ELSE acc \cup {cur})
         ELSE TokensOf(Tail(s), Append(cur, LowerChar(Head(s))), acc)

Tokens(s) == TokensOf(s, <<>>, {})

ShouldMatches(doc, clause) ==
    /\ Get(doc, "node_type", "") = clause.node_type
    /\ IF clause.match_type = "exact"
       THEN Get(doc, "name", <<>>) = clause.value
       ELSE Tokens(clause.value) \subseteq Tokens(Get(doc, "name", <<>>))

SearchShould(docs, clauses, size) ==
    Take(SelectSeq(docs, LAMBDA doc :
             \E i \in 1..Len(clauses) : ShouldMatches(doc, clauses[i])), size)

(***************************************************************************)
(* The retrieval methods of nodes/classify.py.  X_filters is the filter    *)
(* list the method builds, X the rows it returns from the documents.       *)
(***************************************************************************)
NormalizedOps(operation_candidates) ==
    SelectSeq([i \in 1..Len(operation_candidates) |->
                   normalize_value(operation_candidates[i])],
              LAMBDA op : op # <<>>)

OptFilter(cond, f) == IF cond THEN <<f>> ELSE <<>>

get_full_rows_filters(defect, operation_candidates, style) ==
    LET ops == NormalizedOps(operation_candidates)
    IN  <<Term("defect", normalize_value(defect))>>
        \o OptFilter(ops # <<>>, Terms("operation", ops))
        \o <<Term("style", normalize_value(style))>>

get_full_rows(docs, defect, operation_candidates, style, size) ==
    SearchFilter(docs, get_full_rows_filters(defect, operation_candidates, style), size)

get_rows_by_error_filters(error) == <<Term("error", normalize_value(error))>>

get_rows_by_error(docs, error, size) ==
    SearchFilter(docs, get_rows_by_error_filters(error), size)

get_rows_by_error_and_defect_filters(error, defect) ==
    OptFilter(normalize_value(error) # <<>>, Term("error", normalize_value(error)))
    \o OptFilter(normalize_value(defect) # <<>>, Term("defect", normalize_value(defect)))

\* with no filter left the method returns [] without a search request
get_rows_by_error_and_defect(docs, error, defect, size) ==
    IF get_rows_by_error_and_defect_filters(error, defect) = <<>> THEN <<>>
    ELSE SearchFilter(docs, get_rows_by_error_and_defect_filters(error, defect), size)

get_rows_with_error_filters(defect, operation_candidates, style, error) ==
    LET ops == NormalizedOps(operation_candidates)
    IN  OptFilter(normalize_value(defect) # <<>>, Term("defect", normalize_value(defect)))
        \o OptFilter(ops # <<>>, Terms("operation", ops))
        \o <<Term("style", normalize_value(style))>>
        \o OptFilter(normalize_value(error) # <<>>, Term("error", normalize_value(error)))

get_rows_with_error(docs, defect, operation_candidates, style, error, size) ==
    SearchFilter(docs,
        get_rows_with_error_filters(defect, operation_candidates, style, error), size)

\* node_queries of get_rows_non_precise: the matches with a type and a value
NodeQueries(registry_matches) ==
    LET ok == SelectSeq(registry_matches, LAMBDA m :
                  Get(m, "node_type", "") # "" /\ Get(m, "value", <<>>) # <<>>)
    IN  [i \in 1..Len(ok) |->
            [node_type |-> ok[i].node_type, value |-> ok[i].value,
             match_type |-> Get(ok[i], "match_type", "partial"),
             confidence |-> Get(ok[i], "confidence", 0)]]

\* build_relationship_search_query: one should-clause per node query
build_relationship_search_query(node_queries) ==
    SelectSeq(node_queries, LAMBDA n : n.node_type # "" /\ n.value # <<>>)

get_rows_non_precise(docs, registry_matches, size) ==
    IF registry_matches = <<>> \/ NodeQueries(registry_matches) = <<>> THEN <<>>
    ELSE SearchShould(docs,
             build_relationship_search_query(NodeQueries(registry_matches)), size)

\* A mutant: every match of the wanted type counts, an empty value too.
extract_values_keep_empty(registry_matches, node_type) ==
    LET hit == SelectSeq(registry_matches, LAMBDA m : Get(m, "node_type", NONE) = node_type)
    IN  [i \in 1..Len(hit) |-> Get(hit[i], "value", <<>>)]

extract_values_from_registry_matches(registry_matches, node_type) ==
    LET hit == SelectSeq(registry_matches, LAMBDA m :
                   Get(m, "node_type", NONE) = node_type /\ Get(m, "value", <<>>) # <<>>)
    IN  [i \in 1..Len(hit) |-> hit[i].value]

(***************************************************************************)
(* _analyze_result_quality (nodes/classify.py): the response strategy.     *)
(***************************************************************************)
Truthy(v) == v # <<>>

RECURSIVE UniqueOf(_, _, _)
UniqueOf(results, field, acc) ==
    IF results = <<>> THEN acc
    ELSE LET v == Get(Head(results), field, <<>>)
         IN  UniqueOf(Tail(results), field,
                      IF Truthy(v) /\ v \notin Range(acc) THEN Append(acc, v) ELSE acc)

UniqueValues(results) ==
    [defect    |-> UniqueOf(results, "defect", <<>>),
     operation |-> UniqueOf(results, "operation", <<>>),
     style     |-> UniqueOf(results, "style", <<>>),
     error     |-> UniqueOf(results, "error", <<>>),
     action    |-> UniqueOf(results, "action", <<>>)]

HasActions(results) ==
    \E i \in 1..Len(results) :
        Truthy(Get(results[i], "action", <<>>)) \/ Truthy(Get(results[i], "actions", <<>>))

Strategy(strategy, direct, ctype, uv, acts, why) ==
    [strategy |-> strategy, can_direct_answer |-> direct,
     needs_clarification |-> ~direct, clarification_type |-> ctype,
     unique_values |-> uv, has_actions |-> acts, reasoning |-> why]

\* A mutant: the empty result set is not answered first.
analyze_result_quality_no_early_return(query_results, query_method, has_defect, has_operation, has_style, has_error, filled_slots) ==
    IF has_defect /\ has_operation /\ has_style /\ has_error
    THEN IF query_results # <<>>
         THEN Strategy("direct_answer", TRUE, NONE, UniqueValues(query_results),
                       HasActions(query_results), "All 4 parameters specified")
         ELSE Strategy("no_results", FALSE, NONE, UniqueValues(query_results), FALSE,
                       "All 4 parameters specified but no results found")
    ELSE Strategy("list_options", FALSE, "multiple", UniqueValues(query_results),
                  HasActions(query_results), "Non-precise query")

\* A mutant: the three-parameter case answers directly whatever the errors found.
analyze_result_quality_direct3(query_results, query_method, has_defect, has_operation, has_style, has_error, filled_slots) ==
    IF query_results = <<>>
    THEN Strategy("no_results", FALSE, NONE, <<>>, FALSE, "No results found")
    ELSE IF has_defect /\ has_operation /\ has_style
         THEN Strategy("direct_answer", TRUE, NONE, UniqueValues(query_results),
                       HasActions(query_results), "3 or 4 parameters")
         ELSE Strategy("list_options", FALSE,
                       IF has_error THEN "defect" ELSE "multiple",
                       UniqueValues(query_results), HasActions(query_results), "other")

\* A mutant: with all four parameters and no action in the rows, no_results.
analyze_result_quality_need_actions(query_results, query_method, has_defect, has_operation, has_style, has_error, filled_slots) ==
    IF query_results = <<>> \/ ~HasActions(query_results)
    THEN Strategy("no_results", FALSE, NONE, <<>>, FALSE, "No results found")
    ELSE Strategy(IF has_defect /\ has_operation /\ has_style /\ has_error
                  THEN "direct_answer" ELSE "list_options",
                  has_defect /\ has_operation /\ has_style /\ has_error,
                  IF has_defect /\ has_operation /\ has_style /\ has_error
                  THEN NONE ELSE "multiple",
                  UniqueValues(query_results), FALSE, "mutant")

\* A mutant: the error case answers directly whenever some row has an action,
\* however many defects the rows name.
analyze_result_quality_error_by_actions(query_results, query_method, has_defect, has_operation, has_style, has_error, filled_slots) ==
    IF query_results = <<>>
    THEN Strategy("no_results", FALSE, NONE, <<>>, FALSE, "No results found")
    ELSE IF has_defect /\ has_operation /\ has_style
         THEN Strategy("direct_answer", TRUE, NONE, UniqueValues(query_results),
                       HasActions(query_results), "3 or 4 parameters")
         ELSE IF has_error
         THEN IF HasActions(query_results)
              THEN Strategy("direct_answer", TRUE, NONE, UniqueValues(query_results),
                            TRUE, "Error specified, actions")
              ELSE Strategy("list_options", FALSE, "defect",
                            UniqueValues(query_results), FALSE, "Error specified")
         ELSE Strategy("list_options", FALSE, "multiple", UniqueValues(query_results),
                       HasActions(query_results), "other")

\* A mutant: the error case is taken only when error alone is asserted.
analyze_result_quality_error_alone(query_results, query_method, has_defect, has_operation, has_style, has_error, filled_slots) ==
    IF has_error /\ (has_defect \/ has_operation \/ has_style)
                 /\ ~(has_defect /\ has_operation /\ has_style)
    THEN analyze_result_quality_direct3(query_results, query_method,
             has_defect, has_operation, has_style, FALSE, filled_slots)
    ELSE analyze_result_quality_error_by_actions(query_results, query_method,
             has_defect, has_operation, has_style, has_error, filled_slots)

analyze_result_quality(query_results, query_method, has_defect, has_operation, has_style, has_error, filled_slots) ==
    LET unique_values == UniqueValues(query_results)
        has_actions == HasActions(query_results)
        unique_errors == unique_values.error
        unique_defects == unique_values.defect
    IN
    IF query_results = <<>>
    THEN Strategy("no_results", FALSE, NONE, <<>>, FALSE,
                  "No results found in knowledge base")
    \* Case 1: all 4 parameters
    ELSE IF has_defect /\ has_operation /\ has_style /\ has_error
    THEN IF has_actions /\ Len(query_results) > 0
         THEN Strategy("direct_answer", TRUE, NONE, unique_values, TRUE,
                       "All 4 parameters specified, results contain actions")
         ELSE IF Len(query_results) > 0
         THEN Strategy("direct_answer", TRUE, NONE, unique_values, FALSE,
                       "All 4 parameters specified, results available")
         ELSE Strategy("no_results", FALSE, NONE, unique_values, FALSE,
                       "All 4 parameters specified but no results found")
    \* Case 2: defect + operation + style
    ELSE IF has_defect /\ has_operation /\ has_style
    THEN IF Len(unique_errors) = 0
         THEN IF has_actions
              THEN Strategy("direct_answer", TRUE, NONE, unique_values, TRUE,
                            "3 parameters specified, actions without errors")
              ELSE Strategy("list_options", FALSE, "error", unique_values, FALSE,
                            "3 parameters specified but no errors/actions")
         ELSE IF Len(unique_errors) = 1
         THEN IF has_actions
              THEN Strategy("direct_answer", TRUE, NONE, unique_values, TRUE,
                            "3 parameters specified, single error with actions")
              ELSE Strategy("direct_answer", TRUE, NONE, unique_values, FALSE,
                            "3 parameters specified, single error found")
         ELSE Strategy("list_options", FALSE, "error", unique_values, has_actions,
                       "3 parameters specified, several errors found")
    \* Case 3: error specified
    ELSE IF has_error
    THEN IF Len(unique_defects) = 0
         THEN IF has_actions
              THEN Strategy("direct_answer", TRUE, NONE, unique_values, TRUE,
                            "Error specified, actions without defects")
              ELSE Strategy("list_options", FALSE, "defect", unique_values, FALSE,
                            "Error specified but no defects/actions")
         ELSE IF Len(unique_defects) = 1
         THEN IF has_defect
                 /\ unique_defects[1] \in Range(Get(filled_slots, "defect", <<>>))
              THEN IF has_actions
                   THEN Strategy("direct_answer", TRUE, NONE, unique_values, TRUE,
                                 "Error + defect specified, results contain actions")
                   ELSE Strategy("direct_answer", TRUE, NONE, unique_values, FALSE,
                                 "Error + defect specified")
              ELSE Strategy("direct_answer", TRUE, NONE, unique_values, has_actions,
                            "Error specified, single defect found")
         ELSE Strategy("list_options", FALSE, "defect", unique_values, has_actions,
                       "Error specified, several defects found")
    \* Case 4: other combinations
    ELSE Strategy("list_options", FALSE, "multiple", unique_values, has_actions,
                  "Non-precise query")

(***************************************************************************)
(* The result formatters: the text handed to the generation oracle is the  *)
(* header of the method's format and, per row, the fields it prints.       *)
(***************************************************************************)
Shown(row, fields) ==
    SelectSeq(fields, LAMBDA f : Truthy(Get(row, f, <<>>)))

PreciseFields(row) ==
    Shown(row, <<"defect", "operation", "style", "error">>)
    \o (IF Truthy(Get(row, "action", <<>>)) THEN <<"action">>
        ELSE IF Truthy(Get(row, "actions", <<>>)) THEN <<"actions">> ELSE <<>>)

Render(row, fields) == [i \in 1..Len(fields) |-> <<fields[i], row[fields[i]]>>]

format_precise_results(results) ==
    IF results = <<>> THEN [text |-> "No matching records found in the knowledge base."]
    ELSE [text |-> "Found matching record(s) in the knowledge base",
          records |-> [i \in 1..Len(results) |->
                          Render(results[i], PreciseFields(results[i]))]]

format_error_precise_results(results) ==
    IF results = <<>>
    THEN [text |-> "No matching records found for this error in the knowledge base."]
    ELSE [text |-> "Found matching record(s) for this error",
          records |-> [i \in 1..Len(results) |->
                          Render(results[i],
                              Shown(results[i], <<"error", "defect", "operation", "style">>))]]

format_non_precise_results(results) ==
    IF results = <<>>
    THEN [text |-> "No matching relationship nodes found in the relationship index."]
    ELSE [text |-> "Found related node(s) in the relationship index",
          records |-> [i \in 1..Len(results) |->
                          <<Get(results[i], "node_type", "unknown"),
                            Get(results[i], "name", <<"N", "/", "A">>)>>]]

format_generic_results ==
    [text |-> "This is a generic manufacturing query with no specific registry matches."]

(***************************************************************************)
(* merge_metadata (state.py): the reducer of the metadata channel.         *)
(***************************************************************************)
EmptyDict == <<>>

\* `if d:` on an Optional[dict]: neither None nor empty
DictTruthy(d) == d # NoneDict /\ DOMAIN d # {}

\* dict.update: every key of e is set in d
Update(d, e) == [k \in DOMAIN d \cup DOMAIN e |-> IF k \in DOMAIN e THEN e[k] ELSE d[k]]

\* A mutant: a key already present keeps its value (left wins).
merge_metadata_left_wins(left, right) ==
    LET r1 == IF DictTruthy(right) THEN Update(EmptyDict, right) ELSE EmptyDict
    IN  IF DictTruthy(left) THEN Update(r1, left) ELSE r1

\* A mutant: an absent left side makes the result empty.
merge_metadata_none_left(left, right) ==
    IF ~DictTruthy(left) THEN EmptyDict
    ELSE IF DictTruthy(right) THEN Update(left, right) ELSE left

\* A mutant: a channel without reducer, the last write replaces the value.
merge_metadata_overwrite(left, right) == IF DictTruthy(right) THEN right ELSE left

merge_metadata(left, right) ==
    LET r1 == IF DictTruthy(left) THEN Update(EmptyDict, left) ELSE EmptyDict
    IN  IF DictTruthy(right) THEN Update(r1, right) ELSE r1

(***************************************************************************)
(* The nodes.  A node is an operator from the state it reads and the       *)
(* answer of its external collaborators to the partial state it returns     *)
(* (a function on the channels it writes), or Raised when an exception     *)
(* leaves it.                                                              *)
(***************************************************************************)
Raised == [py_raised |-> TRUE]

Nodes == {"extract_keywords", "summarize_thread_memory", "analyze_query",
          "classify", "summarize"}

\* `if not classification`: None and "" are falsy
\* A mutant: only the label "precise" lets the routing node search.
LabelPrecise(c) == c = "precise"

LabelTruthy(c) == c # NONE /\ c # ""

(***************************************************************************)
(* extract_keywords (nodes/extract.py).  The oracle either fails (the call *)
(* raises or its output is not parsable) or answers with keywords, raw     *)
(* matches and a summary.  A raw match is a dict whose confidence is       *)
(* [int |-> n] when int() accepts it and [bad |-> TRUE] when int() raises; *)
(* an entry that is no dict is NotADict.                                   *)
(***************************************************************************)
NotADict == [py_notdict |-> TRUE]

\* int(match.get("confidence", 0)) raises on some entry that is a dict
ConfidenceRaises(raw) ==
    \E i \in 1..Len(raw) :
        raw[i] # NotADict /\ "bad" \in DOMAIN Get(raw[i], "confidence", [int |-> 0])

ValidatedMatch(m) ==
    [node_type  |-> Get(m, "node_type", ""),
     value      |-> Get(m, "value", <<>>),
     match_type |-> Get(m, "match_type", "partial"),
     confidence |-> Get(m, "confidence", [int |-> 0]).int]

ValidatedMatches(raw) ==
    LET dicts == SelectSeq(raw, LAMBDA m : m # NotADict)
        all == [i \in 1..Len(dicts) |-> ValidatedMatch(dicts[i])]
    IN  SelectSeq(all, LAMBDA v : v.node_type # "" /\ Truthy(v.value))

ExtractFallback(st) ==
    [keywords |-> <<>>,
     metadata |-> DictSet(DictSet(st.metadata, "registry_matches", <<>>),
                          "query_spec_summary", "")]

extract_keywords(st, oracle) ==
    IF oracle.failed \/ ConfidenceRaises(oracle.registry_matches)
    THEN ExtractFallback(st)
    ELSE [keywords |-> oracle.keywords,
          metadata |-> DictSet(DictSet(st.metadata, "registry_matches",
                                       ValidatedMatches(oracle.registry_matches)),
                               "query_spec_summary", oracle.query_spec_summary)]

(***************************************************************************)
(* summarize_thread_memory (nodes/memory.py).  The store is                *)
(*   [available, client, lrange_raises, ids, blobs, llm_fails]:            *)
(* ids is the thread's list, most recent first; blobs maps an id to        *)
(* [kind |-> "missing" | "get_raises" | "bad_json"] or to                  *)
(* [kind |-> "record", data |-> the stored workflow state].                *)
(***************************************************************************)
NoMemory(md) ==
    DictSet(DictSet(md, "thread_memory_summary", NONE), "thread_memory_available", FALSE)

NoMemoryEmpty(md) ==
    DictSet(DictSet(NoMemory(md), "workflow_count", 0),
            "historical_registry_matches", <<>>)

IsRecordBlob(b) == b.kind = "record"

\* the ids whose blob was read and parsed, in retrieval order
ReadableIds(store) ==
    SelectSeq(store.ids, LAMBDA id : IsRecordBlob(store.blobs[id]))

HistoricalEntry(id, data) ==
    [workflow_run_id  |-> id,
     query            |-> Get(data, "query", ""),
     response         |-> Get(data, "response", ""),
     classification   |-> Get(data, "classification", NONE),
     registry_matches |-> Get(Get(data, "metadata", EmptyDict), "registry_matches", <<>>),
     created_at       |-> Get(data, "created_at", "")]

HistoricalMatches(store) ==
    LET ids == SelectSeq(ReadableIds(store), LAMBDA id :
                   Get(Get(store.blobs[id].data, "metadata", EmptyDict),
                       "registry_matches", <<>>) # <<>>)
    IN  [i \in 1..Len(ids) |-> HistoricalEntry(ids[i], store.blobs[ids[i]].data)]

WorkflowInteractions(store) ==
    LET ids == SelectSeq(ReadableIds(store), LAMBDA id :
                   Get(store.blobs[id].data, "query", "") # "")
    IN  [i \in 1..Len(ids) |->
            [query          |-> store.blobs[ids[i]].data.query,
             response       |-> Get(store.blobs[ids[i]].data, "response", ""),
             classification |-> Get(store.blobs[ids[i]].data, "classification", NONE)]]

MemoryFound(md, store, summary, fallback) ==
    LET m1 == DictSet(md, "thread_memory_summary", summary)
        m2 == DictSet(m1, "thread_memory_available", TRUE)
        m3 == DictSet(m2, "workflow_count", Len(WorkflowInteractions(store)))
        m4 == DictSet(m3, "thread_id", Get(md, "thread_id", "generated"))
        m5 == IF fallback THEN DictSet(m4, "summary_fallback", TRUE) ELSE m4
    IN  DictSet(m5, "historical_registry_matches", HistoricalMatches(store))

\* A mutant: a failing store leaves an error text as the summary.
summarize_thread_memory_error_summary(st, store) ==
    IF ~store.available \/ ~store.client \/ store.lrange_raises
    THEN [metadata |-> DictSet(DictSet(st.metadata, "thread_memory_summary",
                                       "Error retrieving memory"),
                               "thread_memory_available", FALSE)]
    ELSE [metadata |-> NoMemoryEmpty(st.metadata)]

\* A mutant: the memory node also returns the keywords channel.
summarize_thread_memory_writes_keywords(st, store) ==
    [keywords |-> <<>>, metadata |-> NoMemory(st.metadata)]

summarize_thread_memory(st, store) ==
    LET md == st.metadata
    IN  IF ~store.available \/ ~store.client
        THEN [metadata |-> NoMemory(md)]
        ELSE IF store.lrange_raises
        THEN [metadata |-> DictSet(DictSet(NoMemory(md), "thread_memory_error",
                                           "Redis LRANGE failed"),
                                   "historical_registry_matches", <<>>)]
        ELSE IF store.ids = <<>> \/ WorkflowInteractions(store) = <<>>
        THEN [metadata |-> NoMemoryEmpty(md)]
        ELSE IF store.llm_fails
        THEN [metadata |-> MemoryFound(md, store, "Previous interactions", TRUE)]
        ELSE [metadata |-> MemoryFound(md, store, "LLM thread summary", FALSE)]

(***************************************************************************)
(* analyze_query (nodes/analyze.py).  The oracle answer is "raise" (the    *)
(* call fails), "unparsable", or the label of its JSON answer; an answer   *)
(* without the key is the label "non-precise" by result.get's default.     *)
(***************************************************************************)
\* analyze.py 133-137 and 42-48: what is rendered into the classification prompt
ClassifierPrompt(st) ==
    LET metadata == st.metadata
        historical == Get(metadata, "historical_registry_matches", <<>>)
    IN  [query |-> st.query,
         query_spec_summary |-> Get(metadata, "query_spec_summary", ""),
         registry_matches |-> Get(metadata, "registry_matches", <<>>),
         thread_memory_summary |-> Get(metadata, "thread_memory_summary", NONE),
         \* "historical_registry_matches or []": an empty list stays empty
         historical_registry_matches |-> historical]

classify_with_llm(oracle) ==
    IF oracle = "raise"
    THEN [classification |-> "non-precise", reasoning |-> "LLM classification failed"]
    ELSE IF oracle = "unparsable"
    THEN [classification |-> "non-precise", reasoning |-> "Could not parse LLM response"]
    ELSE [classification |-> oracle, reasoning |-> "LLM reasoning"]

MatchesByType(registry_matches) ==
    LET types == {Get(registry_matches[i], "node_type", "") :
                      i \in 1..Len(registry_matches)} \ {""}
    IN  [t \in types |->
            LET ms == SelectSeq(registry_matches, LAMBDA m : Get(m, "node_type", "") = t)
            IN  [i \in 1..Len(ms) |->
                    [value      |-> Get(ms[i], "value", <<>>),
                     confidence |-> Get(ms[i], "confidence", 0),
                     match_type |-> Get(ms[i], "match_type", "partial")]]]

\* A mutant: analysis decides a cross-turn merge whenever the thread has
\* history, and hands the current matches on as the classification registry.
AnalysisMetadataMerging(md, llm_result) ==
    LET registry_matches == Get(md, "registry_matches", <<>>)
        historical == Get(md, "historical_registry_matches", <<>>)
    IN  [classification |-> llm_result.classification,
         reasoning |-> llm_result.reasoning,
         registry_match_count |-> Len(registry_matches),
         classification_method |-> "llm-based",
         thread_memory_used |-> Get(md, "thread_memory_summary", NONE) # NONE,
         historical_registry_matches_count |-> Len(historical),
         historical_context_used |-> Len(historical) > 0,
         merge_applied |-> historical # <<>>,
         classification_registry |-> registry_matches]

AnalysisMetadata(md, llm_result) ==
    LET registry_matches == Get(md, "registry_matches", <<>>)
        historical == Get(md, "historical_registry_matches", <<>>)
        base == [classification |-> llm_result.classification,
                 reasoning |-> llm_result.reasoning,
                 registry_match_count |-> Len(registry_matches),
                 node_types_found |-> {Get(registry_matches[i], "node_type", "") :
                                          i \in 1..Len(registry_matches)} \ {""},
                 confidence_scores |-> [i \in 1..Len(registry_matches) |->
                                           Get(registry_matches[i], "confidence", 0)],
                 classification_method |-> "llm-based",
                 thread_memory_used |-> Get(md, "thread_memory_summary", NONE) # NONE,
                 historical_registry_matches_count |-> Len(historical),
                 historical_context_used |-> Len(historical) > 0]
    IN  IF registry_matches # <<>>
        THEN DictSet(base, "matches_by_type", MatchesByType(registry_matches))
        ELSE base

\* A mutant: a failed oracle call leaves the turn without a classification.
analyze_query_no_default(st, oracle) ==
    LET llm_result == classify_with_llm(oracle)
        label == IF oracle \in {"raise", "unparsable"} THEN NONE
                 ELSE llm_result.classification
    IN  [classification |-> label,
         metadata |-> DictSet(st.metadata, "analysis",
                              AnalysisMetadata(st.metadata, llm_result))]

analyze_query(st, oracle) ==
    LET llm_result == classify_with_llm(oracle)
    IN  [classification |-> llm_result.classification,
         metadata |-> DictSet(st.metadata, "analysis",
                              AnalysisMetadata(st.metadata, llm_result))]

(***************************************************************************)
(* classify (nodes/classify.py): routing and retrieval.                    *)
(* The search service answers from kbDocs (the fact index) and relDocs     *)
(* (the relationship index); failAt is "client" when no client can be     *)
(* obtained, "request1" / "request2" when the first / second search        *)
(* request of the turn raises, and "never" when every request is answered. *)
(***************************************************************************)
FactSize == 50

FailPoints == {"client", "request1", "request2", "never"}

FilterRequest(index, filters) ==
    [index |-> index, kind |-> "filter", clauses |-> filters, size |-> FactSize]

ShouldRequest(index, clauses) ==
    [index |-> index, kind |-> "should", clauses |-> clauses, size |-> FactSize]

\* lines 855-878: the node types no match of the registry has are taken from
\* the most recent historical turn
RECURSIVE Supplement(_, _, _)
Supplement(classification_registry, historical_matches, missing) ==
    IF historical_matches = <<>> THEN classification_registry
    ELSE LET h == Head(historical_matches)
             t == Get(h, "node_type", NONE)
             add == /\ t \in missing
                    /\ ~\E i \in 1..Len(classification_registry) :
                           Get(classification_registry[i], "node_type", NONE) = t
         IN  Supplement(IF add THEN Append(classification_registry, h)
                        ELSE classification_registry,
                        Tail(historical_matches), missing)

\* lines 839-878: the registry matches used for routing
RoutingMatches(metadata) ==
    LET analysis_metadata == Get(metadata, "analysis", EmptyDict)
        classification_registry == Get(analysis_metadata, "classification_registry", <<>>)
        merge_applied == Get(analysis_metadata, "merge_applied", FALSE)
        historical == Get(metadata, "historical_registry_matches", <<>>)
        current_types == {Get(classification_registry[i], "node_type", "") :
                              i \in 1..Len(classification_registry)} \ {""}
        missing == {"defect", "operation", "style", "error"} \ current_types
    IN  IF classification_registry = <<>> THEN Get(metadata, "registry_matches", <<>>)
        ELSE IF merge_applied /\ historical # <<>> /\ missing # {}
        THEN Supplement(classification_registry,
                        Get(historical[1], "registry_matches", <<>>), missing)
        ELSE classification_registry

\* A mutant of the decision table: error alone is tested before error + defect
\* and the three-parameter rule before the four-parameter rule.
RouteCaseReordered(has_defect, has_operation, has_style, has_error) ==
    IF has_defect /\ has_operation /\ has_style THEN "three"
    ELSE IF has_error THEN "error"
    ELSE IF has_defect \/ has_operation \/ has_style THEN "partial"
    ELSE "generic"

\* A mutant of the decision table: the error rule is taken only when none of
\* defect, operation, style is present.
RouteCaseErrorAlone(has_defect, has_operation, has_style, has_error) ==
    IF has_defect /\ has_operation /\ has_style /\ has_error THEN "four"
    ELSE IF has_error /\ has_defect THEN "error_defect"
    ELSE IF has_defect /\ has_operation /\ has_style THEN "three"
    ELSE IF has_error /\ ~(has_defect \/ has_operation \/ has_style) THEN "error"
    ELSE IF has_defect \/ has_operation \/ has_style THEN "partial"
    ELSE "generic"

\* A mutant of the decision table: without any slot value the relationship
\* index is still asked.
RouteCaseNoGeneric(has_defect, has_operation, has_style, has_error) ==
    IF has_defect /\ has_operation /\ has_style /\ has_error THEN "four"
    ELSE IF has_error /\ has_defect THEN "error_defect"
    ELSE IF has_defect /\ has_operation /\ has_style THEN "three"
    ELSE IF has_error THEN "error"
    ELSE "partial"

\* lines 922-1070: the decision table, first match wins
RouteCase(has_defect, has_operation, has_style, has_error) ==
    IF has_defect /\ has_operation /\ has_style /\ has_error THEN "four"
    ELSE IF has_error /\ has_defect THEN "error_defect"
    ELSE IF has_defect /\ has_operation /\ has_style THEN "three"
    ELSE IF has_error THEN "error"
    ELSE IF has_defect \/ has_operation \/ has_style THEN "partial"
    ELSE "generic"

Retrieved(method, index, rows, unfiltered, requests) ==
    [query_method |-> method, index_used |-> index, query_results |-> rows,
     fallback_unfiltered |-> unfiltered, requests |-> requests, raised |-> FALSE]

SearchRaised(requests) ==
    [query_method |-> NONE, index_used |-> NONE, query_results |-> <<>>,
     fallback_unfiltered |-> FALSE, requests |-> requests, raised |-> TRUE]

\* A mutant of the fallback: the locally filtered rows are kept even when none is left.
FourParamFallbackStrict(rows3, error) ==
    [rows |-> SelectSeq(rows3, LAMBDA row :
                  normalize_value(Get(row, "error", <<>>)) = normalize_value(error)),
     unfiltered |-> FALSE]

\* lines 962-992: the rows kept from the three-parameter result set
FourParamFallback(rows3, error) ==
    LET filtered_results == SelectSeq(rows3, LAMBDA row :
            normalize_value(Get(row, "error", <<>>)) = normalize_value(error))
    IN  IF rows3 # <<>> /\ filtered_results # <<>>
        THEN [rows |-> filtered_results, unfiltered |-> FALSE]
        ELSE [rows |-> rows3, unfiltered |-> rows3 # <<>>]

\* lines 922-992: all four parameters
RouteFour(kbDocs, failAt, defect, operations, style, error) ==
    LET req1 == FilterRequest(KB, get_rows_with_error_filters(defect, operations, style, error))
        rows4 == get_rows_with_error(kbDocs, defect, operations, style, error, FactSize)
        req2 == FilterRequest(KB, get_full_rows_filters(defect, operations, style))
        rows3 == get_full_rows(kbDocs, defect, operations, style, FactSize)
        kept == FourParamFallback(rows3, error)
    IN  IF failAt = "request1" THEN SearchRaised(<<req1>>)
        ELSE IF Len(rows4) # 0
        THEN Retrieved("get_rows_with_error", KB, rows4, FALSE, <<req1>>)
        ELSE IF failAt = "request2" THEN SearchRaised(<<req1, req2>>)
        ELSE Retrieved("get_full_rows_fallback", KB, kept.rows, kept.unfiltered,
                       <<req1, req2>>)

\* lines 994-1070: the other rules
RouteOther(case, registry_matches, kbDocs, relDocs, failAt, defects, operations, styles, errors) ==
    LET one(method, index, req, rows) ==
            IF failAt = "request1" THEN SearchRaised(<<req>>)
            ELSE Retrieved(method, index, rows, FALSE, <<req>>)
    IN  CASE case = "error_defect" ->
               IF get_rows_by_error_and_defect_filters(errors[1], defects[1]) = <<>>
               THEN Retrieved("get_rows_by_error_and_defect", KB, <<>>, FALSE, <<>>)
               ELSE one("get_rows_by_error_and_defect", KB,
                        FilterRequest(KB, get_rows_by_error_and_defect_filters(
                                              errors[1], defects[1])),
                        get_rows_by_error_and_defect(kbDocs, errors[1], defects[1], FactSize))
          [] case = "three" ->
               one("get_full_rows", KB,
                   FilterRequest(KB, get_full_rows_filters(defects[1], operations, styles[1])),
                   get_full_rows(kbDocs, defects[1], operations, styles[1], FactSize))
          [] case = "error" ->
               one("get_rows_by_error", KB,
                   FilterRequest(KB, get_rows_by_error_filters(errors[1])),
                   get_rows_by_error(kbDocs, errors[1], FactSize))
          [] case = "partial" ->
               IF registry_matches = <<>> \/ NodeQueries(registry_matches) = <<>>
               THEN Retrieved("get_rows_non_precise", REL, <<>>, FALSE, <<>>)
               ELSE one("get_rows_non_precise", REL,
                        ShouldRequest(REL, build_relationship_search_query(
                                               NodeQueries(registry_matches))),
                        get_rows_non_precise(relDocs, registry_matches, FactSize))
          [] OTHER -> Retrieved("generic", NONE, <<>>, FALSE, <<>>)

\* lines 1085-1102
FormattedText(query_method, query_results) ==
    CASE query_method \in {"get_rows_with_error", "get_full_rows",
                           "get_full_rows_fallback", "get_rows_by_error_and_defect"} ->
             format_precise_results(query_results)
      [] query_method = "get_rows_by_error" -> format_error_precise_results(query_results)
      [] query_method = "get_rows_non_precise" -> format_non_precise_results(query_results)
      [] query_method = "generic" -> format_generic_results
      [] OTHER -> IF query_results # <<>> THEN format_precise_results(query_results)
                  ELSE [text |-> "No results found."]

\* lines 982-992: the note that the error filter could not be honored
WithFallbackInfo(metadata) ==
    DictSet(metadata, "classify",
        DictSet(Get(metadata, "classify", EmptyDict), "fallback_info",
            [original_query |-> "get_rows_with_error (4 params)",
             fallback_query |-> "get_full_rows (3 params)",
             error_filter_applied |-> FALSE,
             reason |-> "No rows matched error in 3-parameter results"]))

\* lines 1143-1157
ClassifyExcept(st, metadata) ==
    [metadata |-> DictSet(metadata, "classify",
        [classification |-> st.classification,
         error |-> "exception",
         results_count |-> 0,
         results |-> <<>>,
         formatted_text |-> [text |-> "Error occurred while querying Elasticsearch"]])]

classify(st, kbDocs, relDocs, failAt) ==
    LET metadata == st.metadata
        registry_matches == RoutingMatches(metadata)
        defects == extract_values_from_registry_matches(registry_matches, "defect")
        operations == extract_values_from_registry_matches(registry_matches, "operation")
        styles == extract_values_from_registry_matches(registry_matches, "style")
        errors == extract_values_from_registry_matches(registry_matches, "error")
        has_defect == defects # <<>>
        has_operation == operations # <<>>
        has_style == styles # <<>>
        has_error == errors # <<>>
        case == RouteCase(has_defect, has_operation, has_style, has_error)
        got == IF case = "four"
               THEN RouteFour(kbDocs, failAt, defects[1], operations, styles[1], errors[1])
               ELSE RouteOther(case, registry_matches, kbDocs, relDocs, failAt,
                               defects, operations, styles, errors)
        \* line 992: metadata is rebound to the copy that carries fallback_info
        metadata2 == IF got.fallback_unfiltered THEN WithFallbackInfo(metadata) ELSE metadata
        response_strategy ==
            analyze_result_quality(got.query_results, got.query_method, has_defect,
                has_operation, has_style, has_error,
                Get(metadata2, "consolidated_slot_state", EmptyDict))
        \* lines 1127-1137: final_metadata["classify"] is assigned a new dict
        final_metadata == DictSet(metadata2, "classify",
            [classification |-> st.classification,
             index_used |-> got.index_used,
             query_method |-> got.query_method,
             results_count |-> Len(got.query_results),
             results |-> got.query_results,
             formatted_text |-> FormattedText(got.query_method, got.query_results),
             fallback_used |-> FALSE,
             response_strategy |-> response_strategy])
    IN  IF ~LabelTruthy(st.classification) THEN [update |-> EmptyDict, requests |-> <<>>]
        ELSE IF failAt = "client" THEN [update |-> ClassifyExcept(st, metadata), requests |-> <<>>]
        ELSE IF got.raised
        THEN [update |-> ClassifyExcept(st, metadata), requests |-> got.requests]
        ELSE [update |-> [metadata |-> final_metadata], requests |-> got.requests]

(***************************************************************************)
(* summarize (nodes/summarize.py): response generation.                    *)
(***************************************************************************)
SlotTypes == {"defect", "operation", "style", "error"}

\* lines 72-84: the current turn's values per slot type
CurrentSlotState(classification_registry) ==
    [t \in SlotTypes |->
        {Get(classification_registry[i], "value", <<>>) :
            i \in {j \in 1..Len(classification_registry) :
                      /\ Get(classification_registry[j], "node_type", "") = t
                      /\ Truthy(Get(classification_registry[j], "value", <<>>))}}]

\* lines 39-93 and 119-136: what the template is rendered with
SummarizePrompt(st) ==
    LET metadata == st.metadata
        classify_results == Get(metadata, "classify", EmptyDict)
        analysis_metadata == Get(metadata, "analysis", EmptyDict)
        consolidated == Get(metadata, "consolidated_slot_state", [t \in SlotTypes |-> <<>>])
        registry == IF Get(analysis_metadata, "classification_registry", <<>>) # <<>>
                    THEN analysis_metadata.classification_registry
                    ELSE Get(metadata, "registry_matches", <<>>)
        current == CurrentSlotState(registry)
    IN  [query |-> st.query,
         classification |-> st.classification,
         query_spec_summary |-> Get(metadata, "query_spec_summary", ""),
         classification_registry |-> registry,
         merge_applied |-> Get(analysis_metadata, "merge_applied", FALSE),
         merge_reasoning |-> Get(analysis_metadata, "merge_reasoning", ""),
         analysis_reasoning |-> Get(analysis_metadata, "reasoning", ""),
         thread_memory_summary |-> Get(metadata, "thread_memory_summary", NONE),
         classify_formatted_text |-> Get(classify_results, "formatted_text", [text |-> ""]),
         query_method |-> Get(classify_results, "query_method", ""),
         results_count |-> Get(classify_results, "results_count", 0),
         response_strategy |-> Get(classify_results, "response_strategy", EmptyDict),
         filled_slots |-> [t \in SlotTypes |->
                             Range(Get(consolidated, t, <<>>)) \cup current[t]],
         consolidated_slot_state |-> consolidated,
         current_slot_state |-> current,
         previous_query_results |-> Get(metadata, "previous_query_results", <<>>)]

NeedMoreInformation == "I need more information to help you."
FallbackResponse == "I encountered an issue processing your query."
OracleResponse == "LLM answer"

\* A mutant: a failure of the generation oracle leaves the node.
summarize_reraise(st, oracle) ==
    IF ~LabelTruthy(st.classification) THEN [response |-> NeedMoreInformation]
    ELSE IF oracle = "raise" THEN Raised
    ELSE [response |-> OracleResponse, metadata |-> st.metadata]

summarize(st, oracle) ==
    IF ~LabelTruthy(st.classification) THEN [response |-> NeedMoreInformation]
    ELSE IF oracle = "raise"
    THEN [response |-> FallbackResponse,
          metadata |-> DictSet(st.metadata, "summarize",
                               [error |-> "exception", fallback_used |-> TRUE])]
    ELSE [response |-> OracleResponse,
          metadata |-> DictSet(st.metadata, "summarize",
              [response_length |-> "len(LLM answer)",
               classification |-> st.classification,
               has_classify_results |->
                   Get(Get(st.metadata, "classify", EmptyDict),
                       "formatted_text", [text |-> ""]).text # ""])]

(***************************************************************************)
(* The answers of the external collaborators that the model explores.      *)
(***************************************************************************)
RECURSIVE PickFrom(_, _, _)
PickFrom(universe, S, i) ==
    IF i > Len(universe) THEN <<>>
    ELSE (IF i \in S THEN <<universe[i]>> ELSE <<>>) \o PickFrom(universe, S, i + 1)

\* the sub-sequences of `universe` with at most n elements
SubSeqs(universe, n) ==
    {PickFrom(universe, S, 1) : S \in {T \in SUBSET (1..Len(universe)) : Cardinality(T) <= n}}

RawMatch(type, value) ==
    [node_type |-> type, value |-> value, match_type |-> "exact",
     confidence |-> [int |-> 100]]

Opt(cond, x) == IF cond THEN <<x>> ELSE <<>>

\* the match lists the slot-extraction oracle may answer with
MatchList(d, o, s, e) ==
    Opt(d, RawMatch("defect", <<"d">>)) \o Opt(o, RawMatch("operation", <<"o">>))
        \o Opt(s, RawMatch("style", <<"s">>)) \o Opt(e # <<>>, RawMatch("error", e))

OracleMatchLists ==
    {MatchList(d, o, s, e) : d \in BOOLEAN, o \in BOOLEAN, s \in BOOLEAN,
                             e \in {<<>>, <<"e">>}}
    \cup {MatchList(TRUE, TRUE, TRUE, <<"n", "a", "n">>)}

ExtractOracles ==
    {[failed |-> TRUE, keywords |-> <<>>, registry_matches |-> <<>>,
      query_spec_summary |-> ""]}
    \cup {[failed |-> FALSE, keywords |-> <<"k">>, registry_matches |-> ms,
           query_spec_summary |-> "summary"] : ms \in OracleMatchLists}

PriorTurn ==
    [kind |-> "record",
     data |-> [query |-> "earlier query", response |-> "earlier answer",
               classification |-> "precise",
               metadata |-> [registry_matches |->
                                <<[node_type |-> "error", value |-> <<"f">>,
                                   match_type |-> "exact", confidence |-> 100]>>],
               created_at |-> "t0"]]

Store(available, lrange_raises, ids, llm_fails) ==
    [available |-> available, client |-> available, lrange_raises |-> lrange_raises,
     ids |-> ids, blobs |-> [id \in Range(ids) |-> PriorTurn], llm_fails |-> llm_fails]

Stores ==
    {Store(FALSE, FALSE, <<>>, FALSE), Store(TRUE, TRUE, <<>>, FALSE),
     [Store(TRUE, FALSE, <<>>, FALSE) EXCEPT !.client = FALSE],
     Store(TRUE, FALSE, <<>>, FALSE), Store(TRUE, FALSE, <<"w1">>, FALSE),
     Store(TRUE, FALSE, <<"w1">>, TRUE)}

AnalyzeOracles == {"raise", "precise", "generic", ""}

FactRow(defect, error, action) ==
    [defect |-> defect, operation |-> <<"o">>, style |-> <<"s">>,
     error |-> error, action |-> action]

KBUniverse ==
    <<FactRow(<<"d">>, <<"e">>, <<"a">>),
      FactRow(<<"d">>, <<"e">>, <<"b">>),
      FactRow(<<"d">>, <<"f">>, <<"a">>),
      FactRow(<<"d">>, <<" ", "e">>, <<>>),
      FactRow(<<"x">>, <<"e">>, <<"a">>)>>

KBIndexes == SubSeqs(KBUniverse, MaxIndexRows)

RelIndexes ==
    {<<>>,
     <<[node_type |-> "operation", name |-> <<"o">>, total_cases |-> 2],
       [node_type |-> "defect", name |-> <<"d">>, total_cases |-> 1]>>}

GenerationOracles == {"ok", "raise"}

(***************************************************************************)
(* The workflow: OCAPService.process_query running the compiled graph.     *)
(* The graph runs in supersteps: the nodes of a superstep all read the     *)
(* state as it was when the superstep began and run concurrently; when     *)
(* all have returned, their writes are applied (metadata through           *)
(* merge_metadata, the other channels by assignment) and the successors    *)
(* of the nodes that ran form the next superstep.                          *)
(***************************************************************************)
\* A mutant of the graph: analysis is an entry node too.
EdgesAnalysisAtStart ==
    {<<"START", "extract_keywords">>, <<"START", "summarize_thread_memory">>,
     <<"START", "analyze_query">>,
     <<"extract_keywords", "analyze_query">>,
     <<"summarize_thread_memory", "analyze_query">>,
     <<"analyze_query", "classify">>, <<"classify", "summarize">>,
     <<"summarize", "END">>}

Edges ==
    {<<"START", "extract_keywords">>, <<"START", "summarize_thread_memory">>,
     <<"extract_keywords", "analyze_query">>,
     <<"summarize_thread_memory", "analyze_query">>,
     <<"analyze_query", "classify">>, <<"classify", "summarize">>,
     <<"summarize", "END">>}

Successors(ns) == {m \in Nodes : \E n \in ns : <<n, m>> \in Edges}

InitialState(query, thread_id, user_id) ==
    [query |-> query, keywords |-> NoneList, classification |-> NONE, entities |-> NONE,
     relationships |-> NONE, response |-> NONE,
     metadata |-> [thread_id |-> thread_id, user_id |-> user_id,
                   workflow_run_id |-> "run-1"]]

\* one node's writes applied to the channels
ApplyWrite(st, update) ==
    [c \in DOMAIN st |->
        IF c \notin DOMAIN update THEN st[c]
        ELSE IF c = "metadata" THEN merge_metadata(st[c], update[c])
        ELSE update[c]]

RECURSIVE ApplyWrites(_, _, _)
ApplyWrites(st, order, ws) ==
    IF order = <<>> THEN st
    ELSE ApplyWrites(ApplyWrite(st, ws[Head(order)]), Tail(order), ws)

Orders(S) == {o \in [1..Cardinality(S) -> S] : Range(o) = S}

NoEnv == [kb |-> <<>>, failures |-> {}, store |-> NoneDict]

IdleMerge == /\ mleft = NoneDict /\ mright = NoneDict /\ mout = NoneDict
IdleQual == /\ qin = NoneDict /\ qout = NoneDict
IdleTwin == twin = [stage |-> "idle"]
IdleThread == thread = NoneDict
IdleCall == call = NoneDict
IdleBg == bg = NoneDict

IdleWorkflow ==
    /\ pc = "idle"
    /\ state = InitialState("", NONE, NONE)
    /\ active = {}
    /\ started = {}
    /\ input = EmptyDict
    /\ writes = EmptyDict
    /\ runs = [n \in Nodes |-> 0]
    /\ env = NoEnv
    /\ searches = <<>>
    /\ result = NoneDict

Init ==
    /\ IdleCall
    /\ IdleBg
    /\ IdleWorkflow
    /\ IdleMerge
    /\ IdleQual
    /\ IdleTwin
    /\ IdleThread

\* process_query up to graph.invoke (lines 98-158)
ProcessQueryStart ==
    /\ pc = "idle"
    /\ \E thread_id \in {"t1", NONE}, user_id \in {"u1"} :
          state' = InitialState("query text",
                       IF thread_id # NONE THEN thread_id
                       ELSE IF user_id # NONE THEN "user_thread_generated"
                       ELSE "thread_generated",
                       user_id)
    /\ active' = Successors({"START"})
    /\ pc' = "graph"
    /\ UNCHANGED <<started, input, writes, runs, env, searches, result,
                   mleft, mright, mout, qin, qout,
                   twin, thread, call, bg>>

NodeStart(n) ==
    /\ pc = "graph"
    /\ n \in active \ started
    /\ started' = started \cup {n}
    /\ input' = DictSet(input, n, state)
    /\ runs' = [runs EXCEPT ![n] = @ + 1]
    /\ UNCHANGED <<pc, state, active, writes, env, searches, result,
                   mleft, mright, mout, qin, qout,
                   twin, thread, call, bg>>

Running(n) == pc = "graph" /\ n \in started /\ n \notin DOMAIN writes

Failed(what, cond) == IF cond THEN {what} ELSE {}

ExtractFinish ==
    /\ Running("extract_keywords")
    /\ \E oracle \in ExtractOracles :
          /\ writes' = DictSet(writes, "extract_keywords",
                               extract_keywords(input["extract_keywords"], oracle))
          /\ env' = [env EXCEPT !.failures = @ \cup Failed("extraction", oracle.failed)]
    /\ UNCHANGED <<pc, state, active, started, input, runs, searches, result,
                   mleft, mright, mout, qin, qout,
                   twin, thread, call, bg>>

MemoryFinish ==
    /\ Running("summarize_thread_memory")
    /\ \E store \in Stores :
          /\ writes' = DictSet(writes, "summarize_thread_memory",
                 summarize_thread_memory(input["summarize_thread_memory"], store))
          /\ env' = [env EXCEPT
                        !.store = store,
                        !.failures = @ \cup Failed("memory",
                            ~store.available \/ ~store.client \/ store.lrange_raises)]
    /\ UNCHANGED <<pc, state, active, started, input, runs, searches, result,
                   mleft, mright, mout, qin, qout,
                   twin, thread, call, bg>>

AnalyzeFinish ==
    /\ Running("analyze_query")
    /\ \E oracle \in AnalyzeOracles :
          /\ writes' = DictSet(writes, "analyze_query",
                               analyze_query(input["analyze_query"], oracle))
          /\ env' = [env EXCEPT !.failures = @ \cup Failed("classification", oracle = "raise")]
    /\ UNCHANGED <<pc, state, active, started, input, runs, searches, result,
                   mleft, mright, mout, qin, qout,
                   twin, thread, call, bg>>

ClassifyFinish ==
    /\ Running("classify")
    /\ \E kbDocs \in KBIndexes, relDocs \in RelIndexes, failAt \in FailPoints :
          \E out \in {classify(input["classify"], kbDocs, relDocs, failAt)} :
          LET asked == \E i \in 1..Len(out.requests) : out.requests[i].index = KB
          IN  /\ writes' = DictSet(writes, "classify", out.update)
              /\ searches' = out.requests
              /\ env' = [env EXCEPT
                            !.kb = IF asked THEN kbDocs ELSE <<>>,
                            !.failures = @ \cup Failed("search",
                                "error" \in DOMAIN Get(Get(out.update, "metadata", EmptyDict),
                                                       "classify", EmptyDict))]
    /\ UNCHANGED <<pc, state, active, started, input, runs, result,
                   mleft, mright, mout, qin, qout,
                   twin, thread, call, bg>>

SummarizeFinish ==
    /\ Running("summarize")
    /\ \E oracle \in GenerationOracles :
          /\ writes' = DictSet(writes, "summarize", summarize(input["summarize"], oracle))
          /\ env' = [env EXCEPT !.failures = @ \cup Failed("generation",
                        oracle = "raise" /\ LabelTruthy(input["summarize"].classification))]
    /\ UNCHANGED <<pc, state, active, started, input, runs, searches, result,
                   mleft, mright, mout, qin, qout,
                   twin, thread, call, bg>>

\* the end of a superstep: the writes are applied in some order
StepCommit ==
    /\ pc = "graph"
    /\ active # {}
    /\ active \subseteq DOMAIN writes
    /\ \E order \in Orders(active) :
          IF \E n \in active : writes[n] = Raised
          THEN /\ pc' = "raised"
               /\ UNCHANGED <<state, active>>
          ELSE /\ pc' = pc
               /\ state' = ApplyWrites(state, order, writes)
               /\ active' = Successors(active)
    /\ started' = {}
    /\ writes' = EmptyDict
    /\ UNCHANGED <<input, runs, env, searches, result, mleft, mright, mout, qin, qout,
                   twin, thread, call, bg>>

\* process_query after graph.invoke (lines 160-266)
ProcessQueryReturn ==
    /\ \/ pc = "raised"
       \/ pc = "graph" /\ active = {}
    /\ result' =
          IF pc = "raised"
          THEN [query |-> state.query, thread_id |-> state.metadata.thread_id,
                keywords |-> <<>>, registry_matches |-> <<>>, classification |-> NONE,
                response |-> NONE, status |-> "error"]
          ELSE [query |-> state.query, thread_id |-> state.metadata.thread_id,
                keywords |-> state.keywords,
                registry_matches |-> Get(state.metadata, "registry_matches", <<>>),
                classification |-> state.classification,
                response |-> state.response, status |-> "processed"]
    /\ pc' = "done"
    /\ UNCHANGED <<state, active, started, input, writes, runs, env, searches,
                   mleft, mright, mout, qin, qout,
                   twin, thread, call, bg>>

Next ==
    \/ ProcessQueryStart
    \/ \E n \in Nodes : NodeStart(n)
    \/ ExtractFinish
    \/ MemoryFinish
    \/ AnalyzeFinish
    \/ ClassifyFinish
    \/ SummarizeFinish
    \/ StepCommit
    \/ ProcessQueryReturn

Spec == Init /\ [][Next]_vars

\* graph.invoke runs every scheduled node to its return and process_query
\* returns: no step of the turn is postponed for ever
Fairness == WF_vars(Next)

SpecLive == Spec /\ Fairness

(***************************************************************************)
(* merge_metadata on its own: the two sides are drawn from the maps over   *)
(* at most MaxMergeKeys keys whose values are scalars or nested maps (and  *)
(* None); the reducer is applied, and applied again with the same right    *)
(* side to its own result.                                                 *)
(***************************************************************************)
KeyNames == <<"thread_id", "analysis", "classify">>

MergeKeys == {KeyNames[i] : i \in 1..MaxMergeKeys}

MergeValues ==
    {[tag |-> "scalar", v |-> "x"], [tag |-> "scalar", v |-> "y"],
     [tag |-> "dict", d |-> [a |-> "x"]], [tag |-> "dict", d |-> [b |-> "y"]]}

MergeMaps == UNION {[K -> MergeValues] : K \in SUBSET MergeKeys}

MergeSides == MergeMaps \cup {NoneDict}

InitMerge ==
    /\ IdleCall
    /\ IdleBg
    /\ IdleWorkflow
    /\ IdleQual
    /\ IdleTwin
    /\ IdleThread
    /\ mleft \in MergeSides
    /\ mright \in MergeSides
    /\ mout = [calls |-> 0]

MergeCall ==
    /\ mout.calls = 0
    /\ mout' = [calls |-> 1, value |-> merge_metadata(mleft, mright)]
    /\ UNCHANGED <<mleft, mright, wfVars, qualVars, twinVars, threadVars, callVars, bgVars>>

MergeAgain ==
    /\ mout.calls = 1
    /\ mout' = [calls |-> 2, value |-> merge_metadata(mout.value, mright),
                first |-> mout.value]
    /\ UNCHANGED <<mleft, mright, wfVars, qualVars, twinVars, threadVars, callVars, bgVars>>

NextMerge == MergeCall \/ MergeAgain

SpecMerge == InitMerge /\ [][NextMerge]_vars

(***************************************************************************)
(* _analyze_result_quality on its own: the rows are drawn from the         *)
(* sequences of at most MaxQualRows rows of a universe with three distinct *)
(* errors, two distinct defects, rows with and without a defect and an     *)
(* action, and the four presence booleans from all sixteen combinations.   *)
(***************************************************************************)
QualRow(error, action) ==
    [defect |-> <<"d">>, operation |-> <<"o">>, style |-> <<"s">>,
     error |-> error, action |-> action]

QualUniverse ==
    <<QualRow(<<"e">>, <<"a">>),
      QualRow(<<"f">>, <<"a">>),
      QualRow(<<"g">>, <<>>),
      QualRow(<<"e">>, <<>>),
      QualRow(<<>>, <<"a">>),
      QualRow(<<>>, <<>>),
      [defect |-> <<"d">>, error |-> <<"e">>, actions |-> <<"a">>],
      [error |-> <<"e">>, action |-> <<"a">>],
      [error |-> <<"e">>],
      [defect |-> <<"x">>, error |-> <<"e">>, action |-> <<"a">>]>>

\* the slots filled in earlier turns, as the caller hands them over
QualFilledSlots == {EmptyDict, [defect |-> <<<<"d">>>>]}

QualInputs ==
    [rows : SubSeqs(QualUniverse, MaxQualRows),
     has_defect : BOOLEAN, has_operation : BOOLEAN, has_style : BOOLEAN,
     has_error : BOOLEAN, filled_slots : QualFilledSlots]

InitQuality ==
    /\ IdleCall
    /\ IdleBg
    /\ IdleWorkflow
    /\ IdleMerge
    /\ IdleTwin
    /\ IdleThread
    /\ qin \in QualInputs
    /\ qout = NoneDict

QualCall ==
    /\ qout = NoneDict
    /\ qout' = analyze_result_quality(qin.rows, "get_full_rows", qin.has_defect,
                   qin.has_operation, qin.has_style, qin.has_error, qin.filled_slots)
    /\ UNCHANGED <<qin, wfVars, mergeVars, twinVars, threadVars, callVars, bgVars>>

NextQuality == QualCall

SpecQuality == InitQuality /\ [][NextQuality]_vars

(***************************************************************************)
(* One turn run twice through the five nodes with the same query, the same *)
(* oracle answers and the same index content: run a on a thread whose list *)
(* of prior turns is empty, run b on a memory store that is unavailable,   *)
(* has no client, or raises on the list read.  twin records what each run  *)
(* hands to the classification oracle, what the routing node decides, and  *)
(* what each run hands to the generation oracle.                           *)
(***************************************************************************)
EmptyThreadStore == Store(TRUE, FALSE, <<>>, FALSE)

FailingStores == {st \in Stores : ~st.available \/ ~st.client \/ st.lrange_raises}

EntryNodes == {"extract_keywords", "summarize_thread_memory"}

\* the first superstep: both entry nodes read the initial state, and their
\* writes are applied in either order
EntryStep(init, order, extracted, store) ==
    ApplyWrites(init, order,
        DictSet(DictSet(EmptyDict, "extract_keywords", extracted),
                "summarize_thread_memory", summarize_thread_memory(init, store)))

\* the routing node's requests and the record it emits
RoutingDecision(out) ==
    [requests |-> out.requests,
     record |-> Get(Get(out.update, "metadata", EmptyDict), "classify", EmptyDict)]

\* summarize.py 105-136: nothing is rendered without a classification label
GenerationInput(st) ==
    IF ~LabelTruthy(st.classification) THEN NoneDict ELSE SummarizePrompt(st)

Unset == <<NoneDict, NoneDict>>

InitTwin ==
    /\ IdleCall
    /\ IdleBg
    /\ IdleWorkflow
    /\ IdleMerge
    /\ IdleQual
    /\ IdleThread
    /\ twin = [stage |-> "idle"]

TwinEntry ==
    /\ twin.stage = "idle"
    /\ \E thread_id \in {"t1", NONE}, oracle \in ExtractOracles, failing \in FailingStores,
          order \in Orders(EntryNodes) :
          \E init \in {InitialState("query text",
                           IF thread_id # NONE THEN thread_id ELSE "user_thread_generated",
                           "u1")} :
          \E extracted \in {extract_keywords(init, oracle)} :
             twin' = [stage |-> "entry", failing |-> failing,
                      a |-> EntryStep(init, order, extracted, EmptyThreadStore),
                      b |-> EntryStep(init, order, extracted, failing),
                      classifier |-> Unset, routing |-> Unset, generation |-> Unset]
    /\ UNCHANGED <<wfVars, mergeVars, qualVars, threadVars, callVars, bgVars>>

TwinAnalyze ==
    /\ twin.stage = "entry"
    /\ \E oracle \in AnalyzeOracles :
          twin' = [twin EXCEPT
                      !.stage = "analyzed",
                      !.classifier = <<ClassifierPrompt(twin.a), ClassifierPrompt(twin.b)>>,
                      !.a = ApplyWrite(twin.a, analyze_query(twin.a, oracle)),
                      !.b = ApplyWrite(twin.b, analyze_query(twin.b, oracle))]
    /\ UNCHANGED <<wfVars, mergeVars, qualVars, threadVars, callVars, bgVars>>

TwinClassify ==
    /\ twin.stage = "analyzed"
    /\ \E kbDocs \in KBIndexes, relDocs \in RelIndexes, failAt \in FailPoints :
          \E outA \in {classify(twin.a, kbDocs, relDocs, failAt)},
             outB \in {classify(twin.b, kbDocs, relDocs, failAt)} :
             twin' = [twin EXCEPT
                         !.stage = "routed",
                         !.routing = <<RoutingDecision(outA), RoutingDecision(outB)>>,
                         !.a = ApplyWrite(twin.a, outA.update),
                         !.b = ApplyWrite(twin.b, outB.update)]
    /\ UNCHANGED <<wfVars, mergeVars, qualVars, threadVars, callVars, bgVars>>

TwinSummarize ==
    /\ twin.stage = "routed"
    /\ \E oracle \in GenerationOracles :
          twin' = [twin EXCEPT
                      !.stage = "done",
                      !.generation = <<GenerationInput(twin.a), GenerationInput(twin.b)>>,
                      !.a = ApplyWrite(twin.a, summarize(twin.a, oracle)),
                      !.b = ApplyWrite(twin.b, summarize(twin.b, oracle))]
    /\ UNCHANGED <<wfVars, mergeVars, qualVars, threadVars, callVars, bgVars>>

NextTwin == TwinEntry \/ TwinAnalyze \/ TwinClassify \/ TwinSummarize

SpecTwin == InitTwin /\ [][NextTwin]_vars

(***************************************************************************)
(* The list of turn identifiers that the memory store keeps for one        *)
(* thread, used by turns that run concurrently (each request is served by  *)
(* its own call of process_query, and the store is shared).  A turn reads   *)
(* the list in its memory node (memory.py 83) and, after its graph has run, *)
(* stores its record and pushes its identifier with four separate commands *)
(* (ocap_service.py 62-73).  Identifiers are numbered in the order they    *)
(* are pushed: the n-th identifier pushed on the thread is n.              *)
(***************************************************************************)
MaxWorkers == 2     \* worker threads of the background task queue
LtrimStop == 99

Turns == 1..MaxTurns

\* the store's list commands
LPush(list, id) == <<id>> \o list

LRange(list, start, stop) ==
    LET last == IF stop < 0 THEN Len(list) + stop + 1
                ELSE IF stop + 1 < Len(list) THEN stop + 1 ELSE Len(list)
    IN  SubSeq(list, start + 1, last)

LTrim(list, start, stop) == LRange(list, start, stop)

\* the list after n turns stored one after the other
StoredInTurn(n) ==
    LET kept == IF n < LtrimStop + 1 THEN n ELSE LtrimStop + 1
    IN  [i \in 1..kept |-> n + 1 - i]

PriorCounts == {0, 1, LtrimStop, LtrimStop + 1}

InitThread ==
    /\ IdleCall
    /\ IdleBg
    /\ IdleWorkflow
    /\ IdleMerge
    /\ IdleQual
    /\ IdleTwin
    /\ \E n \in PriorCounts :
          thread = [workflows |-> StoredInTurn(n), pushed |-> n,
                    pc |-> [t \in Turns |-> "idle"],
                    workflow_run_ids |-> [t \in Turns |-> <<>>]]

\* process_query is called and the graph starts the memory node
TurnBegin(t) ==
    /\ thread.pc[t] = "idle"
    /\ thread' = [thread EXCEPT !.pc[t] = "memory"]
    /\ UNCHANGED <<wfVars, mergeVars, qualVars, twinVars, callVars, bgVars>>

\* memory.py 83: lrange(thread_workflows_key, 0, -1)
MemoryLrange(t) ==
    /\ thread.pc[t] = "memory"
    /\ thread' = [thread EXCEPT
                     !.pc[t] = "graph",
                     !.workflow_run_ids[t] = LRange(thread.workflows, 0, -1)]
    /\ UNCHANGED <<wfVars, mergeVars, qualVars, twinVars, callVars, bgVars>>

\* ocap_service.py 62: the graph has returned; setex of the turn's record
StoreSetex(t) ==
    /\ thread.pc[t] = "graph"
    /\ thread' = [thread EXCEPT !.pc[t] = "lpush"]
    /\ UNCHANGED <<wfVars, mergeVars, qualVars, twinVars, callVars, bgVars>>

\* ocap_service.py 70: lpush(thread_workflows_key, workflow_run_id)
StoreLpush(t) ==
    /\ thread.pc[t] = "lpush"
    /\ thread' = [thread EXCEPT
                     !.pc[t] = "expire",
                     !.pushed = @ + 1,
                     !.workflows = LPush(@, thread.pushed + 1)]
    /\ UNCHANGED <<wfVars, mergeVars, qualVars, twinVars, callVars, bgVars>>

\* ocap_service.py 71: expire(thread_workflows_key, 2592000)
StoreExpire(t) ==
    /\ thread.pc[t] = "expire"
    /\ thread' = [thread EXCEPT !.pc[t] = "ltrim"]
    /\ UNCHANGED <<wfVars, mergeVars, qualVars, twinVars, callVars, bgVars>>

\* ocap_service.py 73: ltrim(thread_workflows_key, 0, 99)
StoreLtrim(t) ==
    /\ thread.pc[t] = "ltrim"
    /\ thread' = [thread EXCEPT
                     !.pc[t] = "done",
                     !.workflows = LTrim(@, 0, LtrimStop)]
    /\ UNCHANGED <<wfVars, mergeVars, qualVars, twinVars, callVars, bgVars>>

NextThread ==
    \E t \in Turns :
        \/ TurnBegin(t)
        \/ MemoryLrange(t)
        \/ StoreSetex(t)
        \/ StoreLpush(t)
        \/ StoreExpire(t)
        \/ StoreLtrim(t)

SpecThread == InitThread /\ [][NextThread]_vars

(***************************************************************************)
(* extract_keywords on its own: the oracle answers keywords and a match    *)
(* list drawn from well-formed entries, an entry that is not a dict, an    *)
(* entry without node type, an entry without value, and an entry whose     *)
(* confidence int() does not accept.                                       *)
(***************************************************************************)
RawUniverse ==
    <<RawMatch("defect", <<"d">>),
      NotADict,
      [value |-> <<"v">>, match_type |-> "exact", confidence |-> [int |-> 100]],
      RawMatch("error", <<"e">>),
      [node_type |-> "style", match_type |-> "exact", confidence |-> [int |-> 100]],
      [node_type |-> "operation", value |-> <<"o">>, match_type |-> "exact",
       confidence |-> [bad |-> TRUE]],
      RawMatch("style", <<"s">>)>>

RawAnswers ==
    {[failed |-> FALSE, keywords |-> <<"k">>, registry_matches |-> ms,
      query_spec_summary |-> "summary"] : ms \in SubSeqs(RawUniverse, MaxRawMatches)}

InitExtract ==
    /\ IdleBg
    /\ IdleWorkflow
    /\ IdleMerge
    /\ IdleQual
    /\ IdleTwin
    /\ IdleThread
    /\ \E oracle \in RawAnswers :
          call = [fn |-> "extract_keywords", oracle |-> oracle, returned |-> FALSE]

ExtractCall ==
    /\ call.fn = "extract_keywords"
    /\ ~call.returned
    /\ call' = [fn |-> call.fn, oracle |-> call.oracle, returned |-> TRUE,
                value |-> extract_keywords(InitialState("query text", "t1", "u1"),
                                           call.oracle)]
    /\ UNCHANGED <<wfVars, mergeVars, qualVars, twinVars, threadVars, bgVars>>

NextExtract == ExtractCall

SpecExtract == InitExtract /\ [][NextExtract]_vars

(***************************************************************************)
(* normalize_value on its own: raw values are None and strings made of     *)
(* leading whitespace, a core and trailing whitespace; the function is     *)
(* applied to the raw value and then to its own result.                    *)
(***************************************************************************)
RawPads == {<<>>, <<" ">>, <<"\t", " ">>, <<"\n">>}

RawCores ==
    {<<>>, <<"n","a","n">>, <<"N","a","N">>, <<"N","o","n","e">>, <<"n","o","n","e">>,
     <<"N","U","L","L">>, <<"n","u","l","l">>, <<"A","b">>, <<"a"," ","B">>,
     <<"n","a","n","o">>, <<"N","o">>}

RawValues == {NoneStr} \cup {pre \o core \o post : pre \in RawPads, core \in RawCores,
                                                   post \in RawPads}

InitNormalize ==
    /\ IdleBg
    /\ IdleWorkflow
    /\ IdleMerge
    /\ IdleQual
    /\ IdleTwin
    /\ IdleThread
    /\ \E val \in RawValues :
          call = [fn |-> "normalize_value", val |-> val, stage |-> "called",
                  value |-> <<>>, twice |-> <<>>]

NormalizeCall ==
    /\ call.fn = "normalize_value"
    /\ call.stage = "called"
    /\ call' = [call EXCEPT !.stage = "returned", !.value = normalize_value(call.val)]
    /\ UNCHANGED <<wfVars, mergeVars, qualVars, twinVars, threadVars, bgVars>>

NormalizeAgain ==
    /\ call.fn = "normalize_value"
    /\ call.stage = "returned"
    /\ call' = [call EXCEPT !.stage = "again", !.twice = normalize_value(call.value)]
    /\ UNCHANGED <<wfVars, mergeVars, qualVars, twinVars, threadVars, bgVars>>

NextNormalize == NormalizeCall \/ NormalizeAgain

SpecNormalize == InitNormalize /\ [][NextNormalize]_vars

(***************************************************************************)
(* Two turns with the same entry superstep, the same index content and the *)
(* same search failures, to which the classifier gives different non-empty *)
(* labels.                                                                 *)
(***************************************************************************)
LabelOracles == {"precise", "generic", "raise"}

LabelEntry ==
    /\ twin.stage = "idle"
    /\ \E oracle \in ExtractOracles, store \in Stores, order \in Orders(EntryNodes) :
          \E init \in {InitialState("query text", "t1", "u1")} :
          \E entered \in {EntryStep(init, order, extract_keywords(init, oracle), store)} :
             twin' = [stage |-> "entered", a |-> entered, b |-> entered, routing |-> Unset]
    /\ UNCHANGED <<wfVars, mergeVars, qualVars, threadVars, callVars, bgVars>>

LabelAnalyze ==
    /\ twin.stage = "entered"
    /\ \E oracleA \in LabelOracles, oracleB \in LabelOracles :
          /\ classify_with_llm(oracleA).classification
                # classify_with_llm(oracleB).classification
          /\ twin' = [twin EXCEPT
                         !.stage = "labelled",
                         !.a = ApplyWrite(twin.a, analyze_query(twin.a, oracleA)),
                         !.b = ApplyWrite(twin.b, analyze_query(twin.b, oracleB))]
    /\ UNCHANGED <<wfVars, mergeVars, qualVars, threadVars, callVars, bgVars>>

LabelClassify ==
    /\ twin.stage = "labelled"
    /\ \E kbDocs \in KBIndexes, relDocs \in RelIndexes, failAt \in FailPoints :
          \E outA \in {classify(twin.a, kbDocs, relDocs, failAt)},
             outB \in {classify(twin.b, kbDocs, relDocs, failAt)} :
             twin' = [twin EXCEPT
                         !.stage = "compared",
                         !.routing = <<RoutingDecision(outA), RoutingDecision(outB)>>,
                         !.a = ApplyWrite(twin.a, outA.update),
                         !.b = ApplyWrite(twin.b, outB.update)]
    /\ UNCHANGED <<wfVars, mergeVars, qualVars, threadVars, callVars, bgVars>>

NextLabels == LabelEntry \/ LabelAnalyze \/ LabelClassify

SpecLabels == InitTwin /\ [][NextLabels]_vars

(***************************************************************************)
(* summarize_thread_memory on its own: the thread's list holds up to       *)
(* MaxStoredTurns identifiers, most recent first, and the value stored     *)
(* under each is missing, unreadable (GET raises, not JSON) or a record,   *)
(* with or without query and with or without matches.                      *)
(***************************************************************************)
TurnBlob(query, matches) ==
    [kind |-> "record",
     data |-> [query |-> query, response |-> "earlier answer", classification |-> "precise",
               metadata |-> [registry_matches |-> matches], created_at |-> "t0"]]

StoredBlobs ==
    {[kind |-> "missing"], [kind |-> "get_raises"], [kind |-> "bad_json"],
     PriorTurn,
     TurnBlob("", PriorTurn.data.metadata.registry_matches),
     TurnBlob("earlier query", <<>>)}

StoredIds == {SubSeq(<<"w2", "w1">>, 1, n) : n \in 0..MaxStoredTurns}

ThreadStores ==
    {[available |-> TRUE, client |-> TRUE, lrange_raises |-> FALSE, ids |-> ids,
      blobs |-> blobs, llm_fails |-> llm_fails] :
        ids \in StoredIds, llm_fails \in BOOLEAN,
        blobs \in UNION {[Range(i) -> StoredBlobs] : i \in StoredIds}}

InitMemory ==
    /\ IdleBg
    /\ IdleWorkflow
    /\ IdleMerge
    /\ IdleQual
    /\ IdleTwin
    /\ IdleThread
    /\ \E store \in ThreadStores :
          /\ DOMAIN store.blobs = Range(store.ids)
          /\ call = [fn |-> "summarize_thread_memory", store |-> store, returned |-> FALSE]

MemoryCall ==
    /\ call.fn = "summarize_thread_memory"
    /\ ~call.returned
    /\ call' = [fn |-> call.fn, store |-> call.store, returned |-> TRUE,
                value |-> summarize_thread_memory(InitialState("query text", "t1", "u1"),
                                                  call.store)]
    /\ UNCHANGED <<wfVars, mergeVars, qualVars, twinVars, threadVars, bgVars>>

NextMemory == MemoryCall

SpecMemory == InitMemory /\ [][NextMemory]_vars

(***************************************************************************)
(* The background task queue (services/background_tasks.py) during one     *)
(* turn.  process_query submits the session task and the create task,      *)
(* runs the graph and submits the update task; MaxWorkers worker threads   *)
(* take tasks from the FIFO queue and run the handlers against the         *)
(* database; shutdown may be called at any moment.  unfinished_tasks is    *)
(* the counter of queue.Queue: put adds one, task_done takes one off, and  *)
(* join returns when it is 0.  A handler is split where another thread can *)
(* see the database between its steps: the update reads the record and     *)
(* then commits.                                                           *)
(***************************************************************************)
Workers == 1..MaxWorkers

Task(task_type, status) == [task_type |-> task_type, status |-> status]

\* the None that shutdown puts on the queue
ShutdownSignal == Task(NONE, NONE)

\* queue.put: the item is appended and counted as unfinished
Put(q, task) ==
    [q EXCEPT !.task_queue = Append(@, task), !.unfinished_tasks = @ + 1]

\* submit (lines 64-78): a queue that is not running discards the task
submit(q, task) ==
    IF ~q.running THEN [q EXCEPT !.discarded = @ \cup {task.task_type}]
    ELSE Put(q, task)

\* task_queue.task_done() after a handler returned or raised (lines 53-56)
TaskDone(q, w) ==
    [q EXCEPT !.unfinished_tasks = @ - 1,
              !.processed = @ \cup {q.worker[w].task.task_type},
              !.worker[w] = [pc |-> "loop", task |-> ShutdownSignal]]

InitBg ==
    /\ IdleCall
    /\ IdleWorkflow
    /\ IdleMerge
    /\ IdleQual
    /\ IdleTwin
    /\ IdleThread
    /\ \E available \in BOOLEAN :
          bg = [task_queue |-> <<>>, unfinished_tasks |-> 0, running |-> TRUE,
                worker |-> [w \in Workers |-> [pc |-> "loop", task |-> ShutdownSignal]],
                available |-> available, execution |-> "absent",
                processed |-> {}, discarded |-> {},
                service |-> "session", shutdown |-> "no", wait |-> FALSE, signals |-> 0]

\* process_query, lines 115-121
SubmitSession ==
    /\ bg.service = "session"
    /\ bg' = [submit(bg, Task("create_or_update_session", NONE)) EXCEPT !.service = "create"]
    /\ UNCHANGED <<wfVars, mergeVars, qualVars, twinVars, threadVars, callVars>>

\* process_query, lines 123-130
SubmitCreate ==
    /\ bg.service = "create"
    /\ bg' = [submit(bg, Task("create_workflow_execution", "pending"))
                 EXCEPT !.service = "graph"]
    /\ UNCHANGED <<wfVars, mergeVars, qualVars, twinVars, threadVars, callVars>>

\* process_query after the graph has run: completed (193-201) or failed (243-250)
SubmitUpdate ==
    /\ bg.service = "graph"
    /\ \E status \in {"completed", "failed"} :
          bg' = [submit(bg, Task("update_workflow_execution", status))
                    EXCEPT !.service = "returned"]
    /\ UNCHANGED <<wfVars, mergeVars, qualVars, twinVars, threadVars, callVars>>

\* _worker: the test of `while self.running`
WorkerLoop(w) ==
    /\ bg.worker[w].pc = "loop"
    /\ bg' = [bg EXCEPT !.worker[w].pc = IF bg.running THEN "get" ELSE "stopped"]
    /\ UNCHANGED <<wfVars, mergeVars, qualVars, twinVars, threadVars, callVars>>

\* _worker: task_queue.get returns an item; None ends the thread without
\* task_done
WorkerGet(w) ==
    /\ bg.worker[w].pc = "get"
    /\ bg.task_queue # <<>>
    /\ bg' = [bg EXCEPT !.task_queue = Tail(@),
                        !.worker[w] = IF Head(bg.task_queue) = ShutdownSignal
                                      THEN [pc |-> "stopped", task |-> ShutdownSignal]
                                      ELSE [pc |-> "run", task |-> Head(bg.task_queue)]]
    /\ UNCHANGED <<wfVars, mergeVars, qualVars, twinVars, threadVars, callVars>>

\* _worker: task_queue.get(timeout=1) raises queue.Empty
WorkerTimeout(w) ==
    /\ bg.worker[w].pc = "get"
    /\ bg.task_queue = <<>>
    /\ bg' = [bg EXCEPT !.worker[w].pc = "loop"]
    /\ UNCHANGED <<wfVars, mergeVars, qualVars, twinVars, threadVars, callVars>>

WorkerSession(w) ==
    /\ bg.worker[w].pc = "run"
    /\ bg.worker[w].task.task_type = "create_or_update_session"
    /\ bg' = TaskDone(bg, w)
    /\ UNCHANGED <<wfVars, mergeVars, qualVars, twinVars, threadVars, callVars>>

\* _create_workflow_execution: db.add and db.commit
WorkerCreate(w) ==
    /\ bg.worker[w].pc = "run"
    /\ bg.worker[w].task.task_type = "create_workflow_execution"
    /\ bg' = [TaskDone(bg, w) EXCEPT
                 !.execution = IF bg.available THEN bg.worker[w].task.status ELSE @]
    /\ UNCHANGED <<wfVars, mergeVars, qualVars, twinVars, threadVars, callVars>>

\* _update_workflow_execution: the query for the record; without database
\* or without record the handler returns
WorkerUpdateRead(w) ==
    /\ bg.worker[w].pc = "run"
    /\ bg.worker[w].task.task_type = "update_workflow_execution"
    /\ bg' = IF ~bg.available \/ bg.execution = "absent"
             THEN TaskDone(bg, w)
             ELSE [bg EXCEPT !.worker[w].pc = "commit"]
    /\ UNCHANGED <<wfVars, mergeVars, qualVars, twinVars, threadVars, callVars>>

\* _update_workflow_execution: the fields are set and committed
WorkerUpdateCommit(w) ==
    /\ bg.worker[w].pc = "commit"
    /\ bg' = [TaskDone(bg, w) EXCEPT !.execution = bg.worker[w].task.status]
    /\ UNCHANGED <<wfVars, mergeVars, qualVars, twinVars, threadVars, callVars>>

\* shutdown, line 239
ShutdownBegin ==
    /\ bg.shutdown = "no"
    /\ \E wait \in BOOLEAN :
          bg' = [bg EXCEPT !.running = FALSE, !.shutdown = "signals", !.wait = wait]
    /\ UNCHANGED <<wfVars, mergeVars, qualVars, twinVars, threadVars, callVars>>

\* shutdown, lines 242-243: one None for each worker
ShutdownPut ==
    /\ bg.shutdown = "signals"
    /\ bg.signals < MaxWorkers
    /\ bg' = [Put(bg, ShutdownSignal) EXCEPT !.signals = @ + 1]
    /\ UNCHANGED <<wfVars, mergeVars, qualVars, twinVars, threadVars, callVars>>

\* shutdown, lines 245-247: task_queue.join() when wait is set
ShutdownJoin ==
    /\ bg.shutdown = "signals"
    /\ bg.signals = MaxWorkers
    /\ bg.wait => bg.unfinished_tasks = 0
    /\ bg' = [bg EXCEPT !.shutdown = "executor"]
    /\ UNCHANGED <<wfVars, mergeVars, qualVars, twinVars, threadVars, callVars>>

\* shutdown, line 249: executor.shutdown(wait) waits for the worker threads
ShutdownExecutor ==
    /\ bg.shutdown = "executor"
    /\ bg.wait => \A w \in Workers : bg.worker[w].pc = "stopped"
    /\ bg' = [bg EXCEPT !.shutdown = "returned"]
    /\ UNCHANGED <<wfVars, mergeVars, qualVars, twinVars, threadVars, callVars>>

WorkerStep(w) ==
    \/ WorkerLoop(w)
    \/ WorkerGet(w)
    \/ WorkerTimeout(w)
    \/ WorkerSession(w)
    \/ WorkerCreate(w)
    \/ WorkerUpdateRead(w)
    \/ WorkerUpdateCommit(w)

ServiceStep == SubmitSession \/ SubmitCreate \/ SubmitUpdate

ShutdownStep == ShutdownBegin \/ ShutdownPut \/ ShutdownJoin \/ ShutdownExecutor

NextBg ==
    \/ SubmitSession
    \/ SubmitCreate
    \/ SubmitUpdate
    \/ \E w \in Workers : WorkerLoop(w)
    \/ \E w \in Workers : WorkerGet(w)
    \/ \E w \in Workers : WorkerTimeout(w)
    \/ \E w \in Workers : WorkerSession(w)
    \/ \E w \in Workers : WorkerCreate(w)
    \/ \E w \in Workers : WorkerUpdateRead(w)
    \/ \E w \in Workers : WorkerUpdateCommit(w)
    \/ ShutdownBegin
    \/ ShutdownPut
    \/ ShutdownJoin
    \/ ShutdownExecutor

SpecBg == InitBg /\ [][NextBg]_vars

\* every thread that can take a step is scheduled eventually
BgFairness ==
    /\ \A w \in Workers : WF_vars(WorkerStep(w))
    /\ WF_vars(ServiceStep)
    /\ WF_vars(ShutdownStep)

SpecBgLive == SpecBg /\ BgFairness

(***************************************************************************)
(* What a state shows of the routing node's run.                           *)
(***************************************************************************)
\* the "classify" record the routing node emitted: in its pending write, and
\* in the merged state once the write is applied
ClassifyRecord ==
    IF "classify" \in DOMAIN writes
    THEN Get(Get(writes["classify"], "metadata", EmptyDict), "classify", EmptyDict)
    ELSE Get(state.metadata, "classify", EmptyDict)

\* the routing node ran to the end of its decision table
Routed == "classify" \in DOMAIN input /\ "query_method" \in DOMAIN ClassifyRecord

RequestedValues(t) ==
    extract_values_from_registry_matches(RoutingMatches(input["classify"].metadata), t)

Present(t) == RequestedValues(t) # <<>>

AllFour == Present("defect") /\ Present("operation") /\ Present("style") /\ Present("error")

\* the rule of the decision table that comes first among those that match
FirstRule ==
    IF AllFour
    THEN [method |-> "get_rows_with_error", index |-> KB,
          fields |-> {"defect", "operation", "style", "error"}]
    ELSE IF Present("error") /\ Present("defect")
    THEN [method |-> "get_rows_by_error_and_defect", index |-> KB,
          fields |-> {"error", "defect"}]
    ELSE IF Present("defect") /\ Present("operation") /\ Present("style")
    THEN [method |-> "get_full_rows", index |-> KB,
          fields |-> {"defect", "operation", "style"}]
    ELSE IF Present("error")
    THEN [method |-> "get_rows_by_error", index |-> KB, fields |-> {"error"}]
    ELSE IF Present("defect") \/ Present("operation") \/ Present("style")
    THEN [method |-> "get_rows_non_precise", index |-> REL, fields |-> {}]
    ELSE [method |-> "generic", index |-> NONE, fields |-> {}]

FilterFields(req) == {req.clauses[i].field : i \in 1..Len(req.clauses)}

\* what the fact index answers to a filter request
Answer(req) == SearchFilter(env.kb, req.clauses, req.size)

SameError(row) ==
    normalize_value(Get(row, "error", <<>>)) = normalize_value(RequestedValues("error")[1])

RowHasAction(row) ==
    Get(row, "action", <<>>) # <<>> \/ Get(row, "actions", <<>>) # <<>>

\* C1: whatever slot types are present in the matches used for routing, the
\* routing node follows the first matching rule of the decision table: its
\* first search request is that rule's lookup on that rule's index (the fact
\* index for the first four rules, the relationship index for the fifth, no
\* request for the generic rule), and the method and index it records are that
\* rule's (the method is recorded as get_full_rows_fallback when the
\* four-filter lookup of the first rule came back empty).
C1_FirstMatchingRule ==
    /\ ("classify" \in DOMAIN input /\ searches # <<>>) =>
          /\ searches[1].index = FirstRule.index
          /\ searches[1].kind = (IF FirstRule.index = KB THEN "filter" ELSE "should")
          /\ FirstRule.index = KB =>
                /\ FilterFields(searches[1]) \subseteq FirstRule.fields
                /\ (FirstRule.method = "get_full_rows") =>
                       FilterFields(searches[1]) = FirstRule.fields
    /\ Routed =>
          /\ ClassifyRecord.index_used = FirstRule.index
          /\ ClassifyRecord.query_method \in
                {FirstRule.method} \cup
                (IF AllFour /\ Answer(searches[1]) = <<>>
                 THEN {"get_full_rows_fallback"} ELSE {})
          /\ (AllFour /\ Answer(searches[1]) = <<>>) =>
                ClassifyRecord.query_method = "get_full_rows_fallback"
          /\ (FirstRule.method = "generic") = (searches = <<>>)

\* error, defect and operation present, style absent: the second rule wins over
\* the fourth and the fifth
C1_Witness ==
    /\ Routed
    /\ Present("error") /\ Present("defect") /\ Present("operation") /\ ~Present("style")
    /\ ClassifyRecord.query_method = "get_rows_by_error_and_defect"
    /\ searches[1].index = KB

\* C2: with all four slot types present, a four-filter lookup that returns rows
\* is the only request and its rows are the result; one that returns no row is
\* followed by one lookup on the same index with the defect, operation and
\* style filters only, and the result is the rows of that lookup whose
\* normalized stored error equals the normalized requested error if there is
\* one, and all rows of that lookup otherwise.
C2_FourParamFallback ==
    (Routed /\ AllFour) =>
        IF Answer(searches[1]) # <<>>
        THEN /\ Len(searches) = 1
             /\ ClassifyRecord.results = Answer(searches[1])
        ELSE /\ Len(searches) = 2
             /\ searches[2].index = searches[1].index
             /\ searches[2].clauses =
                   SelectSeq(searches[1].clauses, LAMBDA f : f.field # "error")
             /\ FilterFields(searches[2]) = {"defect", "operation", "style"}
             /\ LET rows3 == Answer(searches[2])
                    same == SelectSeq(rows3, SameError)
                IN  /\ ClassifyRecord.results = (IF same # <<>> THEN same ELSE rows3)
                    /\ (ClassifyRecord.results = <<>>) = (rows3 = <<>>)

\* the local filter keeps some rows of the three-filter lookup and drops others
C2_Witness ==
    /\ Routed /\ AllFour
    /\ Len(searches) = 2
    /\ ClassifyRecord.results # <<>>
    /\ Len(ClassifyRecord.results) < Len(Answer(searches[2]))

\* the fallback kept the unfiltered rows of the three-filter lookup
FallbackKeptUnfiltered ==
    /\ Routed /\ AllFour
    /\ Len(searches) = 2
    /\ ClassifyRecord.results # <<>>
    /\ \A i \in 1..Len(ClassifyRecord.results) : ~SameError(ClassifyRecord.results[i])

\* C3: whenever the fallback keeps the unfiltered three-filter rows, the
\* metadata the routing node emits, and the state of the turn from then on,
\* records that the error filter could not be honored.
C3_FallbackRecorded ==
    FallbackKeptUnfiltered =>
        /\ "fallback_info" \in DOMAIN ClassifyRecord
        /\ ClassifyRecord.fallback_info.error_filter_applied = FALSE

(***************************************************************************)
(* The order of the nodes.                                                 *)
(***************************************************************************)
\* node n has returned and its writes have been applied to the state
Committed(n) == runs[n] > 0 /\ n \notin started

ExtractKeys == {"registry_matches", "query_spec_summary"}
MemoryKeys == {"thread_memory_summary", "thread_memory_available"}

\* C4: analysis starts only when both entry nodes have returned and the state
\* it reads holds the metadata of both; routing starts only when analysis has
\* returned and its classification is in the state; generation starts only
\* when routing has returned.
C4_StageOrder ==
    /\ runs["analyze_query"] > 0 =>
          /\ Committed("extract_keywords")
          /\ Committed("summarize_thread_memory")
          /\ ExtractKeys \cup MemoryKeys \subseteq DOMAIN input["analyze_query"].metadata
          /\ input["analyze_query"].keywords # NoneList
    /\ runs["classify"] > 0 =>
          /\ Committed("analyze_query")
          /\ input["classify"].classification # NONE
          /\ "analysis" \in DOMAIN input["classify"].metadata
    /\ runs["summarize"] > 0 =>
          /\ Committed("classify")
          /\ LabelTruthy(input["summarize"].classification) =>
                "formatted_text" \in DOMAIN Get(input["summarize"].metadata,
                                                "classify", EmptyDict)

\* analysis is running on a state that holds what both entry nodes wrote
C4_Witness ==
    /\ "analyze_query" \in started
    /\ "analyze_query" \notin DOMAIN writes
    /\ input["analyze_query"].metadata.thread_memory_available
    /\ input["analyze_query"].metadata.registry_matches # <<>>

(***************************************************************************)
(* Failures of the collaborators.                                          *)
(***************************************************************************)
Collaborators == {"extraction", "memory", "classification", "search", "generation"}

GenerationResponses == {OracleResponse, FallbackResponse, NeedMoreInformation}

NothingRaised ==
    /\ pc # "raised"
    /\ \A n \in DOMAIN writes : writes[n] # Raised

TurnProcessed ==
    /\ pc = "done"
    /\ \A n \in Nodes : runs[n] = 1
    /\ result.status = "processed"
    /\ result.response \in GenerationResponses
    /\ result.response = state.response

AsMap(side) == IF side = NoneDict THEN EmptyDict ELSE side

\* C6: for two maps, the result has the keys of both, right's value under
\* every key of right and left's value under the others; where both hold a
\* nested map under a key the result holds right's nested map and no entry of
\* left's.
C6_MergeRightWins ==
    (mout.calls = 1 /\ mleft # NoneDict /\ mright # NoneDict) =>
        /\ DOMAIN mout.value = DOMAIN mleft \cup DOMAIN mright
        /\ \A k \in DOMAIN mout.value :
              mout.value[k] = (IF k \in DOMAIN mright THEN mright[k] ELSE mleft[k])
        /\ \A k \in DOMAIN mleft \cap DOMAIN mright :
              (mleft[k].tag = "dict" /\ mright[k].tag = "dict") =>
                  DOMAIN mout.value[k].d = DOMAIN mright[k].d

\* both sides hold a different nested map under one key, and left has a key
\* of its own
C6_Witness ==
    /\ mout.calls = 1 /\ mleft # NoneDict /\ mright # NoneDict
    /\ DOMAIN mleft \ DOMAIN mright # {}
    /\ \E k \in DOMAIN mleft \cap DOMAIN mright :
          /\ mleft[k].tag = "dict" /\ mright[k].tag = "dict"
          /\ DOMAIN mleft[k].d # DOMAIN mright[k].d

\* C7: an empty right side gives left, an empty left side gives right, None on
\* a side gives what the empty map gives, and merging the same right side
\* into the result again gives the result.
C7_MergeIdentities ==
    /\ mout.calls = 1 =>
          /\ (mright = EmptyDict \/ mright = NoneDict) => mout.value = AsMap(mleft)
          /\ (mleft = EmptyDict \/ mleft = NoneDict) => mout.value = AsMap(mright)
    /\ mout.calls = 2 => mout.value = mout.first

\* the second merge of a right side that overwrote a key of left
C7_Witness ==
    /\ mout.calls = 2 /\ mleft # NoneDict /\ mright # NoneDict
    /\ DOMAIN mleft \ DOMAIN mright # {}
    /\ \E k \in DOMAIN mleft \cap DOMAIN mright : mleft[k] # mright[k]

(***************************************************************************)
(* The response strategy.                                                  *)
(***************************************************************************)
QualDone == qout # NoneDict

\* C8: the strategy is no_results exactly when no row was retrieved, whatever
\* the four presence booleans.
C8_NoResultsIffEmpty ==
    QualDone => ((qout.strategy = "no_results") = (qin.rows = <<>>))

\* rows without any action, every slot type asserted: not no_results
C8_Witness ==
    /\ QualDone
    /\ qin.rows # <<>>
    /\ \A i \in 1..Len(qin.rows) : ~RowHasAction(qin.rows[i])
    /\ qin.has_defect /\ qin.has_operation /\ qin.has_style /\ qin.has_error
    /\ qout.strategy # "no_results"

\* C9: with all four slot types asserted and a non-empty final result set
\* (that of the four-filter lookup or one kept by the fallback), the strategy
\* is direct_answer with no clarification type, and has_actions tells whether
\* some returned row has an action.
C9_FourParamsDirect ==
    (Routed /\ AllFour /\ ClassifyRecord.results # <<>>) =>
        LET rs == ClassifyRecord.response_strategy
        IN  /\ rs.strategy = "direct_answer"
            /\ rs.can_direct_answer
            /\ rs.clarification_type = NONE
            /\ rs.has_actions =
                  (\E i \in 1..Len(ClassifyRecord.results) :
                       RowHasAction(ClassifyRecord.results[i]))

\* the fact index returns two rows with actions to the four-filter lookup
C9_Witness ==
    /\ Routed /\ AllFour
    /\ Len(searches) = 1
    /\ Len(ClassifyRecord.results) = 2
    /\ \A i \in 1..2 : RowHasAction(ClassifyRecord.results[i])
    /\ ClassifyRecord.response_strategy.strategy = "direct_answer"
    /\ ClassifyRecord.response_strategy.has_actions

DistinctErrors(rows) ==
    {Get(rows[i], "error", <<>>) : i \in 1..Len(rows)} \ {<<>>}

\* C10: with defect, operation and style asserted, no error, and rows
\* returned: no error value in the rows gives direct_answer if some row has an
\* action and list_options asking for the error if none has; one error value
\* gives direct_answer; two or more give list_options asking for the error.
C10_ThreeParams ==
    (QualDone /\ qin.rows # <<>>
        /\ qin.has_defect /\ qin.has_operation /\ qin.has_style /\ ~qin.has_error) =>
        LET n == Cardinality(DistinctErrors(qin.rows))
            acts == \E i \in 1..Len(qin.rows) : RowHasAction(qin.rows[i])
            lists == qout.strategy = "list_options" /\ qout.clarification_type = "error"
            direct == qout.strategy = "direct_answer" /\ qout.clarification_type = NONE
        IN  /\ (n = 0 /\ acts) => direct
            /\ (n = 0 /\ ~acts) => lists
            /\ n = 1 => direct
            /\ n >= 2 => lists

\* three distinct errors in the rows: list_options asking for the error
C10_Witness ==
    /\ QualDone
    /\ qin.has_defect /\ qin.has_operation /\ qin.has_style /\ ~qin.has_error
    /\ Cardinality(DistinctErrors(qin.rows)) = 3
    /\ qout.strategy = "list_options"
    /\ qout.clarification_type = "error"

DistinctDefects(rows) ==
    {Get(rows[i], "defect", <<>>) : i \in 1..Len(rows)} \ {<<>>}

ErrorAlone == qin.has_error /\ ~qin.has_defect /\ ~qin.has_operation /\ ~qin.has_style

\* the error rule: by the number of distinct defect values in the rows
FollowsErrorRule ==
    LET n == Cardinality(DistinctDefects(qin.rows))
        acts == \E i \in 1..Len(qin.rows) : RowHasAction(qin.rows[i])
        lists == qout.strategy = "list_options" /\ qout.clarification_type = "defect"
        direct == qout.strategy = "direct_answer" /\ qout.clarification_type = NONE
    IN  /\ (n = 0 /\ acts) => direct
        /\ (n = 0 /\ ~acts) => lists
        /\ n = 1 => direct
        /\ n >= 2 => lists

\* C11: with error alone asserted and rows returned: no defect value in the
\* rows gives direct_answer if some row has an action and list_options asking
\* for the defect if none has; one defect value gives direct_answer; two or
\* more give list_options asking for the defect.
C11_ErrorOnly ==
    (QualDone /\ qin.rows # <<>> /\ ErrorAlone) => FollowsErrorRule

\* two defects in rows that carry actions: list_options asking for the defect
C11_Witness ==
    /\ QualDone /\ ErrorAlone
    /\ Cardinality(DistinctDefects(qin.rows)) = 2
    /\ \A i \in 1..Len(qin.rows) : RowHasAction(qin.rows[i])
    /\ qout.strategy = "list_options"
    /\ qout.clarification_type = "defect"

ThreeSlots == qin.has_defect /\ qin.has_operation /\ qin.has_style

ListsMultiple == qout.strategy = "list_options" /\ qout.clarification_type = "multiple"

\* C12, as stated: for a non-empty result set and every combination of asserted
\* slot types other than all four, exactly defect+operation+style and error
\* alone, the strategy is list_options asking for multiple values, also when
\* error is asserted with some but not all of defect, operation, style.
C12_OthersListMultiple ==
    (QualDone /\ qin.rows # <<>> /\ ~ThreeSlots /\ ~ErrorAlone) => ListsMultiple

\* C12, amended: for a non-empty result set, a combination without error other
\* than defect+operation+style gives list_options asking for multiple values,
\* and error asserted with some but not all of defect, operation, style
\* follows the error rule, as error alone does.
C12_OthersByError ==
    (QualDone /\ qin.rows # <<>> /\ ~ThreeSlots) =>
        /\ ~qin.has_error => ListsMultiple
        /\ (qin.has_error /\ ~ErrorAlone) => FollowsErrorRule

\* error and defect asserted, one defect and an action in the rows: answered
\* directly
C12_Witness ==
    /\ QualDone
    /\ qin.has_error /\ qin.has_defect /\ ~qin.has_operation /\ ~qin.has_style
    /\ Cardinality(DistinctDefects(qin.rows)) = 1
    /\ \E i \in 1..Len(qin.rows) : RowHasAction(qin.rows[i])
    /\ qout.strategy = "direct_answer"
    /\ qout.clarification_type = NONE

(***************************************************************************)
(* The error lookup and the generic outcome.                               *)
(***************************************************************************)
ByErrorSelected == ClassifyRecord.query_method = "get_rows_by_error"

ClassifyReturned ==
    runs["classify"] > 0 /\ ("classify" \in DOMAIN writes \/ Committed("classify"))

NoSlotPresent == \A t \in SlotTypes : ~Present(t)

ReportsNoResults ==
    /\ "response_strategy" \in DOMAIN ClassifyRecord
    /\ ClassifyRecord.response_strategy.strategy = "no_results"

\* C14, as stated: when the matches used for routing hold no value of any slot
\* type, the routing node sends no search request and records method generic,
\* no index and an empty result set, and the response strategy is no_results.
C14_GenericNoSearch ==
    (ClassifyReturned /\ NoSlotPresent) =>
        /\ searches = <<>>
        /\ Routed
        /\ ClassifyRecord.query_method = "generic"
        /\ ClassifyRecord.index_used = NONE
        /\ ClassifyRecord.results = <<>>
        /\ ReportsNoResults

\* C14, amended: when the matches used for routing hold no value of any slot
\* type, the routing node sends no search request; without a classification
\* label it records nothing; with a label it records an empty result set,
\* and either method generic, no index and the strategy no_results, or, when
\* the search client could not be obtained, an error note.
C14_GenericOrDegraded ==
    (ClassifyReturned /\ NoSlotPresent) =>
        /\ searches = <<>>
        /\ IF ~LabelTruthy(input["classify"].classification)
           THEN ClassifyRecord = EmptyDict
           ELSE /\ ClassifyRecord.results = <<>>
                /\ ClassifyRecord.results_count = 0
                /\ IF "search" \in env.failures
                   THEN "error" \in DOMAIN ClassifyRecord
                   ELSE /\ Routed
                        /\ ClassifyRecord.query_method = "generic"
                        /\ ClassifyRecord.index_used = NONE
                        /\ ReportsNoResults

\* no slot value, a label and a client: the generic outcome, nothing asked
C14_Witness ==
    /\ ClassifyReturned /\ NoSlotPresent
    /\ searches = <<>>
    /\ Routed
    /\ ClassifyRecord.query_method = "generic"
    /\ ReportsNoResults

\* the routing node took its except path: the client could not be obtained
\* or a search request raised
RetrievalFailed == ClassifyReturned /\ "search" \in env.failures

\* C15: when the index is unreachable or a search request raises, the routing
\* node emits an empty result set and an error note, and the turn carries the
\* response strategy no_results.
C15_RetrievalFailureNoResults ==
    RetrievalFailed =>
        /\ ClassifyRecord.results = <<>>
        /\ ClassifyRecord.results_count = 0
        /\ "error" \in DOMAIN ClassifyRecord
        /\ ReportsNoResults

\* the second request of the four-parameter rule raised: an error note, an
\* empty result set and no response strategy
FallbackRequestRaised ==
    /\ RetrievalFailed
    /\ Len(searches) = 2
    /\ ClassifyRecord.results = <<>>
    /\ "error" \in DOMAIN ClassifyRecord
    /\ "response_strategy" \notin DOMAIN ClassifyRecord

(***************************************************************************)
(* The memory node.                                                        *)
(***************************************************************************)
\* the memory node has returned
MemoryReturned ==
    runs["summarize_thread_memory"] > 0
    /\ ("summarize_thread_memory" \in DOMAIN writes \/ Committed("summarize_thread_memory"))

\* the metadata the memory node returned: in its pending write, and through
\* the reducer in the state of the turn
MemoryMetadata ==
    IF "summarize_thread_memory" \in DOMAIN writes
    THEN Get(writes["summarize_thread_memory"], "metadata", EmptyDict)
    ELSE state.metadata

StoreFails == ~env.store.available \/ ~env.store.client \/ env.store.lrange_raises

NoPriorTurn == ~StoreFails /\ env.store.ids = <<>>

\* C16: on a thread without stored prior turns, and whenever the store is
\* unavailable, its client is missing or the list read raises, the memory
\* node raises nothing and returns a state with thread_memory_available
\* false, no summary and an empty historical match list.
C16_NoMemoryState ==
    (MemoryReturned /\ (NoPriorTurn \/ StoreFails)) =>
        /\ NothingRaised
        /\ MemoryMetadata.thread_memory_available = FALSE
        /\ MemoryMetadata.thread_memory_summary = NONE
        /\ "historical_registry_matches" \in DOMAIN MemoryMetadata
        /\ MemoryMetadata.historical_registry_matches = <<>>

\* the store is unavailable: not available, no summary, and no historical
\* match list at all
UnavailableStoreNoList ==
    /\ MemoryReturned
    /\ ~env.store.available
    /\ MemoryMetadata.thread_memory_available = FALSE
    /\ MemoryMetadata.thread_memory_summary = NONE
    /\ "historical_registry_matches" \notin DOMAIN MemoryMetadata

\* C17: of two runs of one turn that differ only in the memory store, one on
\* an empty thread and one on a store that is unavailable or fails, both hand
\* the same inputs to the classification oracle, take the same routing
\* decision (requests, method, index, rows, response strategy), and hand the
\* same inputs to the generation oracle.
C17_EmptyOrUnavailableAlike ==
    twin.stage # "idle" =>
        /\ twin.classifier[1] = twin.classifier[2]
        /\ twin.routing[1] = twin.routing[2]
        /\ twin.generation[1] = twin.generation[2]

\* both runs done with rows retrieved, on a store whose list read raised: the
\* metadata of the two runs differ, what they handed over does not
C17_Witness ==
    /\ twin.stage = "done"
    /\ twin.failing.lrange_raises
    /\ twin.a.metadata # twin.b.metadata
    /\ Get(twin.routing[1].record, "results", <<>>) # <<>>
    /\ twin.generation[1] # NoneDict
    /\ twin.generation[1] = twin.generation[2]

\* the values of slot type t in the registry matches of the prior turns
HistoricalValues(t) ==
    LET entries == HistoricalMatches(env.store)
    IN  UNION {{entries[i].registry_matches[j].value :
                   j \in {k \in 1..Len(entries[i].registry_matches) :
                             entries[i].registry_matches[k].node_type = t}} :
               i \in 1..Len(entries)}

HasHistory == ~StoreFails /\ HistoricalMatches(env.store) # <<>>

Consolidates(metadata) ==
    /\ "consolidated_slot_state" \in DOMAIN metadata
    /\ \A t \in SlotTypes :
          Range(Get(metadata.consolidated_slot_state, t, <<>>)) = HistoricalValues(t)

\* C19: once the memory node has run on a thread whose prior turns have
\* registry matches, the metadata of the turn carries a consolidated slot
\* state holding, per slot type, the values of that type over all prior
\* turns' matches, and the routing node and the generation node read it.
C19_ConsolidatedSlotState ==
    /\ (MemoryReturned /\ HasHistory) => Consolidates(MemoryMetadata)
    /\ \A n \in {"classify", "summarize"} :
          (n \in DOMAIN input /\ HasHistory) => Consolidates(input[n].metadata)

\* a prior turn matched error "f"; the generation node starts on metadata that
\* carries the historical matches and no consolidated slot state
HistoryNotConsolidated ==
    /\ "summarize" \in DOMAIN input
    /\ HasHistory
    /\ HistoricalValues("error") = {<<"f">>}
    /\ input["summarize"].metadata.historical_registry_matches # <<>>
    /\ "consolidated_slot_state" \notin DOMAIN input["summarize"].metadata
    /\ \A t \in SlotTypes :
          SummarizePrompt(input["summarize"]).consolidated_slot_state[t] = <<>>

(***************************************************************************)
(* The identifiers the memory node reads.                                  *)
(***************************************************************************)
HasRead(t) == thread.pc[t] \notin {"idle", "memory"}

MostRecentFirst(ids) == \A i, j \in 1..Len(ids) : i < j => ids[i] > ids[j]

\* C18: whatever turns have completed on the thread, and whatever turns are
\* storing their state while a later turn reads, the memory node reads at
\* most 100 identifiers of prior turns, the most recently stored first.
C18_ReadsAtMostHundred ==
    \A t \in Turns :
        HasRead(t) =>
            /\ Len(thread.workflow_run_ids[t]) <= LtrimStop + 1
            /\ MostRecentFirst(thread.workflow_run_ids[t])

\* a turn has read 101 identifiers while another turn was between its lpush
\* and its ltrim
ReadBetweenPushAndTrim ==
    \E t, u \in Turns :
        /\ t # u
        /\ thread.pc[t] = "graph"
        /\ thread.pc[u] \in {"expire", "ltrim"}
        /\ Len(thread.workflow_run_ids[t]) = LtrimStop + 2
        /\ MostRecentFirst(thread.workflow_run_ids[t])

(***************************************************************************)
(* The values that count as present.                                       *)
(***************************************************************************)
\* the registry matches slot extraction stored: in its pending write, and in
\* the state of the turn once the write is applied
StoredMatches ==
    IF "extract_keywords" \in DOMAIN writes
    THEN Get(Get(writes["extract_keywords"], "metadata", EmptyDict),
             "registry_matches", <<>>)
    ELSE Get(state.metadata, "registry_matches", <<>>)

\* C20: every registry match stored by slot extraction, and every value the
\* routing node counts as present for a slot type, has a node type and a
\* value that is not empty after normalization.
C20_PresentValuesNormalized ==
    /\ \A i \in 1..Len(StoredMatches) :
          /\ StoredMatches[i].node_type # ""
          /\ normalize_value(StoredMatches[i].value) # <<>>
    /\ "classify" \in DOMAIN input =>
          \A t \in SlotTypes :
              \A i \in 1..Len(RequestedValues(t)) :
                  normalize_value(RequestedValues(t)[i]) # <<>>

\* the oracle named the error "nan": the match is stored, error counts as
\* present and the four-parameter rule is taken
NanCountsAsPresent ==
    /\ Routed
    /\ \E i \in 1..Len(StoredMatches) :
          StoredMatches[i].node_type = "error" /\ StoredMatches[i].value = <<"n", "a", "n">>
    /\ Present("error")
    /\ normalize_value(RequestedValues("error")[1]) = <<>>
    /\ AllFour
    /\ ClassifyRecord.query_method \in {"get_rows_with_error", "get_full_rows_fallback"}

(***************************************************************************)
(* Malformed entries in the oracle's match list.                           *)
(***************************************************************************)
Extracted == call.fn = "extract_keywords" /\ call.returned

WellFormed(m) ==
    /\ m # NotADict
    /\ Get(m, "node_type", "") # ""
    /\ Get(m, "value", <<>>) # <<>>
    /\ "int" \in DOMAIN Get(m, "confidence", [int |-> 0])

WellFormedOf(raw) ==
    LET ok == SelectSeq(raw, WellFormed)
    IN  [i \in 1..Len(ok) |-> ValidatedMatch(ok[i])]

\* C21: whatever malformed entries the oracle's match list holds (not a dict,
\* no node type, no value, a confidence that is not a number), extraction
\* stores every well-formed entry of the list, in order, and nothing else, and
\* keeps the oracle's keywords.
C21_OnlyMalformedDiscarded ==
    Extracted =>
        /\ call.value.metadata.registry_matches = WellFormedOf(call.oracle.registry_matches)
        /\ call.value.keywords = call.oracle.keywords

\* two well-formed entries around one whose confidence is not a number:
\* nothing is stored and the keywords are lost
BadConfidenceDiscardsAll ==
    /\ Extracted
    /\ Len(call.oracle.registry_matches) = 3
    /\ Len(WellFormedOf(call.oracle.registry_matches)) = 2
    /\ ConfidenceRaises(call.oracle.registry_matches)
    /\ call.value.metadata.registry_matches = <<>>
    /\ call.value.keywords = <<>>

(***************************************************************************)
(* How often a node runs, and which channels it writes.                    *)
(***************************************************************************)
\* C22: in a turn each of the five nodes is started at most once; analysis,
\* the successor of both entry nodes, is started once and not once for each
\* of them.
C22_AtMostOnce == \A n \in Nodes : runs[n] <= 1

\* the turn has ended and analysis, after both entry nodes, ran once
C22_Witness ==
    /\ pc = "done"
    /\ result.status = "processed"
    /\ runs["extract_keywords"] = 1
    /\ runs["summarize_thread_memory"] = 1
    /\ runs["analyze_query"] = 1

WritesOf(n) ==
    CASE n = "extract_keywords" -> {"keywords", "metadata"}
      [] n = "summarize_thread_memory" -> {"metadata"}
      [] n = "analyze_query" -> {"classification", "metadata"}
      [] n = "classify" -> {"metadata"}
      [] n = "summarize" -> {"response", "metadata"}

Returned(n) == n \in DOMAIN writes /\ writes[n] # Raised

\* C23: a node returns only its own channels: keywords comes from extraction
\* alone, classification from analysis alone, response from generation alone,
\* query from no node; the two entry nodes have no channel in common but
\* metadata, and after their superstep the metadata holds what each wrote.
C23_SingleWriter ==
    /\ \A n \in Nodes : Returned(n) => DOMAIN writes[n] \subseteq WritesOf(n)
    /\ (Returned("extract_keywords") /\ Returned("summarize_thread_memory")) =>
          DOMAIN writes["extract_keywords"] \cap DOMAIN writes["summarize_thread_memory"]
              = {"metadata"}
    /\ (Committed("extract_keywords") /\ Committed("summarize_thread_memory")
            /\ pc # "raised") =>
          ExtractKeys \cup MemoryKeys \subseteq DOMAIN state.metadata

\* both entry nodes have returned in the same superstep, extraction with
\* keywords and matches, memory with a summary
C23_Witness ==
    /\ Returned("extract_keywords")
    /\ Returned("summarize_thread_memory")
    /\ writes["extract_keywords"].keywords # <<>>
    /\ writes["extract_keywords"].metadata.registry_matches # <<>>
    /\ writes["summarize_thread_memory"].metadata.thread_memory_available

(***************************************************************************)
(* normalize_value.                                                        *)
(***************************************************************************)
Normalized == call.fn = "normalize_value" /\ call.stage \in {"returned", "again"}

\* core is raw without the whitespace around it
TrimOf(raw, core) ==
    \E i \in 0..Len(raw) : \E j \in i..Len(raw) :
        /\ core = SubSeq(raw, i + 1, j)
        /\ \A k \in 1..i : raw[k] \in {" ", "\t", "\n"}
        /\ \A k \in (j + 1)..Len(raw) : raw[k] \in {" ", "\t", "\n"}
        /\ core # <<>> => /\ core[1] \notin {" ", "\t", "\n"}
                          /\ core[Len(core)] \notin {" ", "\t", "\n"}

\* s spells word in some mix of upper and lower case
Spells(s, lower, upper) ==
    /\ Len(s) = Len(lower)
    /\ \A i \in 1..Len(s) : s[i] \in {lower[i], upper[i]}

SpellsNull(s) ==
    \/ Spells(s, <<"n","a","n">>, <<"N","A","N">>)
    \/ Spells(s, <<"n","o","n","e">>, <<"N","O","N","E">>)
    \/ Spells(s, <<"n","u","l","l">>, <<"N","U","L","L">>)

Cores(raw) == {SubSeq(raw, i + 1, j) : i \in 0..Len(raw), j \in 0..Len(raw)}

\* C24: normalize_value returns "" for None and for a string that trimmed is
\* empty or spells nan, none or null in any letter case; for any other
\* string it returns the trimmed string with its case unchanged; applied to
\* its own result it returns that result.
C24_NormalizeValue ==
    Normalized =>
        /\ call.val = NoneStr => call.value = <<>>
        /\ call.val # NoneStr =>
              \E core \in Cores(call.val) :
                  /\ TrimOf(call.val, core)
                  /\ call.value = IF core = <<>> \/ SpellsNull(core) THEN <<>> ELSE core
        /\ call.stage = "again" => call.twice = call.value

\* " NaN" with whitespace on both sides gave "", and "" gave "" again
C24_Witness ==
    /\ Normalized
    /\ call.stage = "again"
    /\ call.val = <<"\t", " ", "N", "a", "N", "\n">>
    /\ call.value = <<>>
    /\ call.twice = <<>>

(***************************************************************************)
(* The metadata after the superstep of the two entry nodes.                *)
(***************************************************************************)
EntryCommit ==
    /\ pc = "graph"
    /\ active = {"extract_keywords", "summarize_thread_memory"}
    /\ active \subseteq DOMAIN writes
    /\ started' = {}
    /\ pc' = "graph"

WrittenBy(n) == DOMAIN writes[n].metadata \ DOMAIN state.metadata

\* C25: whichever entry node's update is applied first, the metadata after
\* their superstep, which analysis then reads, is the same: the initial keys
\* with their initial values, registry_matches and query_spec_summary as
\* extraction returned them, the thread-memory keys as memory returned them,
\* and no other key.
C25_EntryOrderIrrelevant ==
    [][/\ EntryCommit =>
            /\ DOMAIN state'.metadata =
                   DOMAIN state.metadata \cup WrittenBy("extract_keywords")
                                        \cup WrittenBy("summarize_thread_memory")
            /\ {"thread_id", "user_id", "workflow_run_id"} \subseteq DOMAIN state.metadata
            /\ \A k \in DOMAIN state.metadata : state'.metadata[k] = state.metadata[k]
            /\ WrittenBy("extract_keywords") = ExtractKeys
            /\ \A k \in ExtractKeys :
                   state'.metadata[k] = writes["extract_keywords"].metadata[k]
            /\ MemoryKeys \subseteq WrittenBy("summarize_thread_memory")
            /\ \A k \in WrittenBy("summarize_thread_memory") :
                   state'.metadata[k] = writes["summarize_thread_memory"].metadata[k]
       /\ ("analyze_query" \in started' \ started) =>
            input'["analyze_query"].metadata = state.metadata]_vars

\* analysis reads a metadata with matches from extraction and the history of
\* one earlier turn from memory
C25_Witness ==
    /\ "analyze_query" \in started
    /\ input["analyze_query"].metadata.registry_matches # <<>>
    /\ input["analyze_query"].metadata.query_spec_summary # ""
    /\ Get(input["analyze_query"].metadata, "workflow_count", 0) = 1
    /\ input["analyze_query"].metadata.user_id = "u1"

(***************************************************************************)
(* The matches the routing node works on.                                  *)
(***************************************************************************)
MergeFlagKeys == {"merge_applied", "classification_registry", "merge_reasoning"}

AnalysisOf(metadata) == Get(metadata, "analysis", EmptyDict)

\* the slot types a merge would take from the most recent historical turn
Supplementable(metadata) ==
    LET historical == Get(metadata, "historical_registry_matches", <<>>)
        current == Get(metadata, "registry_matches", <<>>)
    IN  IF historical = <<>> THEN {}
        ELSE {historical[1].registry_matches[i].node_type :
                 i \in 1..Len(historical[1].registry_matches)}
             \ {current[i].node_type : i \in 1..Len(current)}

\* C26: no node sets merge_applied or classification_registry, so the routing
\* node works on exactly the matches extraction stored in this turn, also
\* when the thread's history holds slot types the turn lacks.
C26_NoMergeEverApplied ==
    /\ DOMAIN AnalysisOf(state.metadata) \cap MergeFlagKeys = {}
    /\ \A n \in Nodes :
          (Returned(n) /\ "metadata" \in DOMAIN writes[n]) =>
              DOMAIN AnalysisOf(writes[n].metadata) \cap MergeFlagKeys = {}
    /\ runs["classify"] > 0 =>
          /\ RoutingMatches(input["classify"].metadata)
                 = input["classify"].metadata.registry_matches
          /\ input["classify"].metadata.registry_matches
                 = input["analyze_query"].metadata.registry_matches

\* routing has run on a turn with matches of its own while the most recent
\* earlier turn of the thread holds a slot type the turn lacks
C26_Witness ==
    /\ Routed
    /\ ClassifyReturned
    /\ input["classify"].metadata.registry_matches # <<>>
    /\ Supplementable(input["classify"].metadata) # {}

(***************************************************************************)
(* The classification label and the routing decision.                      *)
(***************************************************************************)
Compared == twin.stage = "compared"

Remembered == call.fn = "summarize_thread_memory" /\ call.returned

HistoricalList == Get(call.value.metadata, "historical_registry_matches", <<>>)

\* the stored record of the turn is readable and its match list is not empty
TurnHasMatches(id) ==
    /\ call.store.blobs[id].kind = "record"
    /\ call.store.blobs[id].data.metadata.registry_matches # <<>>

TurnsWithMatches == SelectSeq(call.store.ids, TurnHasMatches)

\* C28: the historical match list has, in the order the identifiers were
\* retrieved, one entry for each retrieved turn whose record is readable and
\* has a non-empty match list, with that turn's matches, and no other entry.
C28_OneEntryPerTurnWithMatches ==
    Remembered =>
        /\ Len(HistoricalList) = Len(TurnsWithMatches)
        /\ \A i \in 1..Len(HistoricalList) :
              /\ HistoricalList[i].workflow_run_id = TurnsWithMatches[i]
              /\ HistoricalList[i].registry_matches
                    = call.store.blobs[TurnsWithMatches[i]].data.metadata.registry_matches

\* the thread's turns have matches but none of them has a query: the list
\* is empty
MatchesWithoutQueryDropped ==
    /\ Remembered
    /\ Len(call.store.ids) = 2
    /\ Len(TurnsWithMatches) = 2
    /\ HistoricalList = <<>>

(***************************************************************************)
(* The workflow-execution record and the shutdown of the queue.            *)
(***************************************************************************)
BothProcessed ==
    {"create_workflow_execution", "update_workflow_execution"} \subseteq bg.processed

\* C29: with the database available and the queue running, once the create
\* task and the update task of the turn have both been processed, the
\* record is completed or failed, however the worker threads interleave.
C29_UpdateNeverLost ==
    (bg.available /\ bg.running /\ BothProcessed) =>
        bg.execution \in {"completed", "failed"}

\* both tasks were processed, the update while the create was not yet
\* committed: the record stays pending
UpdateBeforeCreateCommitted ==
    /\ bg.available
    /\ bg.running
    /\ BothProcessed
    /\ bg.discarded = {}
    /\ bg.execution = "pending"
    /\ bg.task_queue = <<>>
    /\ bg.unfinished_tasks = 0

WorkersStopped == \A w \in Workers : bg.worker[w].pc = "stopped"

\* C30: shutdown(wait=True), once called, returns, with the queue emptied
\* and both workers stopped.
C30_ShutdownReturns ==
    (bg.shutdown = "signals" /\ bg.wait) ~>
        (bg.shutdown = "returned" /\ WorkersStopped /\ bg.task_queue = <<>>)

\* shutdown(wait=True) waits in join: both workers have ended, each on a
\* None for which task_done was not called
JoinNeverReturns ==
    /\ bg.wait
    /\ bg.shutdown = "signals"
    /\ bg.signals = MaxWorkers
    /\ WorkersStopped
    /\ bg.task_queue = <<>>
    /\ bg.service = "returned"
    /\ bg.unfinished_tasks = MaxWorkers

=============================================================================
